---- MODULE Spec2Model ----
(***************************************************************************)
(* State-machine model of the XML language server (xmllsp.py): the session *)
(* store, the edit application, the schema bindings of the workspace and   *)
(* the debounced validation timers.                                        *)
(*                                                                         *)
(* A document text is a sequence of one-character strings.  The XML parser *)
(* and the schema engine are external collaborators; they are given a      *)
(* small concrete semantics over these texts (see ParseRoot, iter_errors). *)
(***************************************************************************)
EXTENDS Integers, Sequences, FiniteSets, Bags, TLC

\* ------------------------------------------------------------------ bounds
MaxLen == 2          \* longest document text the model lets a session hold
MaxTimers == 2       \* timers alive at the same time
TickLen == 90        \* seconds in one period of session ageing
MaxLine == 2         \* highest line number a position names
MaxChar == 1         \* highest character number a position names

\* ------------------------------------------------------- program constants
TTL == 180           \* session_cache = TTLCache(maxsize=128, ttl=180)
Delay == 4           \* threading.Timer(4.0, deferred_validation, ...)

\* ------------------------------------------------------------ small helpers
None == "None"
NL == "\n"

Min(a, b) == IF a <= b THEN a ELSE b

\* Python dict operations on TLA+ functions
Put(f, k, v) == [x \in (DOMAIN f) \cup {k} |-> IF x = k THEN v ELSE f[x]]
Pop(f, k) == [x \in (DOMAIN f) \ {k} |-> f[x]]
Values(f) == {f[x] : x \in DOMAIN f}
EmptyDict == << >>

\* Python slices content[:n] and content[n:] (an index past the end is clamped)
Prefix(content, n) == SubSeq(content, 1, Min(n, Len(content)))
Suffix(content, n) == SubSeq(content, Min(n, Len(content)) + 1, Len(content))

\* ------------------------------------------------------ Position Translator
\* str.splitlines(True): every line keeps its terminator; a text that does
\* not end in a terminator has a last, unterminated line; "" has no line.
RECURSIVE SplitFrom(_, _, _)
SplitFrom(content, i, cur) ==
    IF i > Len(content)
    THEN IF cur = << >> THEN << >> ELSE << cur >>
    ELSE IF content[i] = NL
         THEN << Append(cur, NL) >> \o SplitFrom(content, i + 1, << >>)
         ELSE SplitFrom(content, i + 1, Append(cur, content[i]))

splitlines(content) == SplitFrom(content, 1, << >>)

\* lines = content.splitlines(True); if not lines: lines = [""]
LinesOf(content) ==
    IF splitlines(content) = << >> THEN << << >> >> ELSE splitlines(content)

\* _pos_to_offset: the loop reads lines[i] for i < pos.line, so a line past
\* len(lines) raises IndexError; the result is then IndexError (-1).
IndexError == -1

RECURSIVE SumLens(_, _)
SumLens(lines, n) == IF n = 0 THEN 0 ELSE SumLens(lines, n - 1) + Len(lines[n])

\* an offset that takes line numbers to start at 1
OffsetLinesFromOne(lines, pos) ==
    IF pos.line > Len(lines)
    THEN IndexError
    ELSE SumLens(lines, IF pos.line = 0 THEN 0 ELSE pos.line - 1)
         + pos.character

_pos_to_offset(lines, pos) ==
    IF pos.line > Len(lines)
    THEN IndexError
    ELSE SumLens(lines, pos.line) + pos.character

_pos_to_offset2(content, pos) == _pos_to_offset(LinesOf(content), pos)

\* One range replacement of _apply_incremental_changes (lines 101-108).
\* The result is [raised, content].
ApplyRange(content, change) ==
    LET lines == LinesOf(content)
        start_offset == _pos_to_offset(lines, change.start)
        end_offset == _pos_to_offset(lines, change.end)
    IN  IF start_offset = IndexError \/ end_offset = IndexError
        THEN [raised |-> TRUE, content |-> content]
        ELSE [raised |-> FALSE,
              content |-> Prefix(content, start_offset) \o change.text
                          \o Suffix(content, end_offset)]

\* _apply_incremental_changes: a change without a range returns its text at
\* once, whatever follows it in the batch.
RECURSIVE ApplyFrom(_, _, _)
ApplyFrom(content, changes, i) ==
    IF i > Len(changes)
    THEN [raised |-> FALSE, content |-> content]
    ELSE IF ~changes[i].hasRange
         THEN [raised |-> FALSE, content |-> changes[i].text]
         ELSE LET r == ApplyRange(content, changes[i])
              IN  IF r.raised THEN r ELSE ApplyFrom(r.content, changes, i + 1)

_apply_incremental_changes(content, changes) == ApplyFrom(content, changes, 1)

\* ------------------------------------------------- external collaborators
\* The model's documents: a letter is an element, the first letter of a text
\* is its root element, "h" also carries the schemaLocation hint token "h".
\* A schema object is known by the file it was compiled from.
\* Elements that stand for hostile documents: "g" carries the hint token "g"
\* (the map names a file outside its directory for it), "f" carries a direct
\* file reference that climbs out of the document's directory, and "../p/x"
\* is a root element name that climbs out of a search directory.
NoSchema == [path |-> << >>]
NoTag == "?"

IsLetter(c) == c \in {"a", "b", "h", "c", "d", "e", "g", "f", "y", "../p/x"}

\* ".." in name or "/" in name or "\\" in name
HasTraversal(name) == name \in {"..", "../p/x"}
\* all(c.isalnum() or c in "._-" for c in name), name not empty
AllowedChars(name) ==
    name \in {"a", "b", "h", "c", "d", "e", "g", "f", "y", "hx", "x", ".."}

RECURSIVE FirstLetter(_, _)
FirstLetter(content, i) ==
    IF i > Len(content) THEN NoTag
    ELSE IF IsLetter(content[i]) THEN content[i]
    ELSE FirstLetter(content, i + 1)

\* ET.fromstring(content, XMLParser(recover=True)): the root element, or
\* XMLSyntaxError when the text holds no element at all.
ParseRoot(content) == FirstLetter(content, 1)
XMLSyntaxError(content) == ParseRoot(content) = NoTag

\* xml_doc.attrib.get("{xsi}schemaLocation").split()
\* : the tokens of the attribute in document order
HintToken(c) ==
    IF c \in {"h", "g"} THEN c
    ELSE IF c = "f" THEN "file:../p/x"
    ELSE IF c = "y" THEN "file:y"
    ELSE None
RECURSIVE HintsFrom(_, _)
HintsFrom(content, i) ==
    IF i > Len(content) THEN << >>
    ELSE IF HintToken(content[i]) = None THEN HintsFrom(content, i + 1)
    ELSE << HintToken(content[i]) >> \o HintsFrom(content, i + 1)
HintsOf(content) == HintsFrom(content, 1)

\* The file system: the schema files that exist, the one that does not load
\* (malformed), and the targetNamespace each schema declares.
Xsd(dir, name) == << dir, name, ".xsd" >>
ExistingFiles ==
    {Xsd("s", "a"), Xsd("s", "b"), Xsd("m", "hx"), Xsd("p", "x"), Xsd("ws", "y")}
\* the file a path names once its ".." components are followed (what the
\* operating system opens, and what Path.resolve() returns)
realpath(path) == IF path[2] = "../p/x" THEN Xsd("p", "x") ELSE path
exists(path) == realpath(path) \in ExistingFiles
LoadFails(path) == path = Xsd("s", "b") \/ ~exists(path)
targetNamespace(path) ==
    IF realpath(path) = Xsd("p", "x") THEN "urn:x"
    ELSE IF path = Xsd("s", "a") THEN "urn:a"
    ELSE None
\* json.load of the map file at map_path: hint token -> schema file name
MapPath == << "m", "schema_map.json" >>
schema_map(map_path) ==
    IF map_path = MapPath THEN [h |-> "hx", g |-> "../p/x"] ELSE EmptyDict
dirname(path) == SubSeq(path, 1, Len(path) - 1)

\* os.path.basename(to_fs_path(uri)) and fnmatch.fnmatch(name, pattern)
basename(uri) == uri
fnmatch(name, pattern) == pattern = "*" \/ pattern = name

\* ------------------------------------------------------- Schema Resolver
\* _find_schemapath_by_rootelement (xmllsp.py): first search path that holds
\* <root>.xsd
RECURSIVE RootElementFrom(_, _, _)
RootElementFrom(tag, searchpaths, i) ==
    IF i > Len(searchpaths) THEN << >>
    ELSE IF exists(Xsd(searchpaths[i], tag)) THEN Xsd(searchpaths[i], tag)
    ELSE RootElementFrom(tag, searchpaths, i + 1)

_find_schemapath_by_rootelement(content, searchpaths) ==
    RootElementFrom(ParseRoot(content), searchpaths, 1)

\* the files os.path.exists is asked about at line 117: one per search path,
\* up to the first that exists
RootElementProbes(content, searchpaths) ==
    {realpath(Xsd(searchpaths[i], ParseRoot(content))) :
       i \in {j \in 1..Len(searchpaths) :
                \A k \in 1..(j - 1) :
                   ~exists(Xsd(searchpaths[k], ParseRoot(content)))}}

\* _find_schemapath_by_location_hint (xmllsp.py): first hint token found in
\* the map whose file exists next to the map
RECURSIVE HintFrom(_, _, _)
HintFrom(hints, map_path, i) ==
    IF i > Len(hints) THEN << >>
    ELSE LET m == schema_map(map_path)
             p == Xsd(dirname(map_path)[1], m[hints[i]])
         IN  IF hints[i] \in DOMAIN m /\ exists(p) THEN p
             ELSE HintFrom(hints, map_path, i + 1)

_find_schemapath_by_location_hint(content, map_path) ==
    IF HintsOf(content) = << >> THEN << >>
    ELSE IF map_path # MapPath THEN << >>
    ELSE HintFrom(HintsOf(content), map_path, 1)

\* the schema files os.path.exists is asked about at line 143: one per hint
\* token the map knows, up to the first that exists
HintProbes(content, map_path) ==
    LET hints == HintsOf(content)
        m == schema_map(map_path)
        file(i) == Xsd(dirname(map_path)[1], m[hints[i]])
    IN  {realpath(file(i)) :
           i \in {j \in 1..Len(hints) :
                    /\ hints[j] \in DOMAIN m
                    /\ \A k \in 1..(j - 1) :
                          hints[k] \in DOMAIN m => ~exists(file(k))}}

\* a patterns loop that keeps the last pattern that matches
RECURSIVE PatternLastFrom(_, _, _)
PatternLastFrom(name, patterns, i) ==
    IF i > Len(patterns) THEN [path |-> << >>, use_default_namespace |-> FALSE]
    ELSE LET later == PatternLastFrom(name, patterns, i + 1) IN
         IF later.path # << >> THEN later
         ELSE IF fnmatch(name, patterns[i].pattern) /\ patterns[i].path # << >>
         THEN [path |-> patterns[i].path,
               use_default_namespace |-> patterns[i].useDefaultNamespace]
         ELSE later

\* the patterns loop of _get_schema_for_doc: [path, use_default_namespace] of
\* the first pattern that matches the file name and has a path
RECURSIVE PatternFrom(_, _, _)
PatternFrom(name, patterns, i) ==
    IF i > Len(patterns) THEN [path |-> << >>, use_default_namespace |-> FALSE]
    ELSE IF fnmatch(name, patterns[i].pattern) /\ patterns[i].path # << >>
         THEN [path |-> patterns[i].path,
               use_default_namespace |-> patterns[i].useDefaultNamespace]
         ELSE PatternFrom(name, patterns, i + 1)

\* Locators of the configuration.  kind is the key the locator carries.
RootElementLocator(dirs) ==
    [kind |-> "rootElement", searchPaths |-> dirs, locationHint |-> << >>,
     patterns |-> << >>]
LocationHintLocator(map_path) ==
    [kind |-> "locationHint", searchPaths |-> << >>, locationHint |-> map_path,
     patterns |-> << >>]
PatternsLocator(ps) ==
    [kind |-> "patterns", searchPaths |-> << >>, locationHint |-> << >>,
     patterns |-> ps]
UnknownLocator ==
    [kind |-> "other", searchPaths |-> << >>, locationHint |-> << >>,
     patterns |-> << >>]

\* the candidate one locator produces (lines 188-216)
Candidate(locator, uri, content) ==
    IF locator.kind = "rootElement" /\ locator.searchPaths # << >>
    THEN [path |-> _find_schemapath_by_rootelement(content, locator.searchPaths),
          use_default_namespace |-> FALSE]
    ELSE IF locator.kind = "locationHint" /\ locator.locationHint # << >>
    THEN [path |-> _find_schemapath_by_location_hint(content, locator.locationHint),
          use_default_namespace |-> FALSE]
    ELSE IF locator.kind = "patterns"
    THEN PatternFrom(basename(uri), locator.patterns, 1)
    ELSE [path |-> << >>, use_default_namespace |-> FALSE]

\* a load that keeps the target namespace of every schema that declares one
LoadedWithNamespace(workspace, path, use_default_namespace, tried) ==
    [schema |-> [path |-> path], schema_path |-> path,
     workspace |->
       [workspace EXCEPT
          !.schemas_for_xsdpath = Put(@, path, [path |-> path]),
          !.default_xmlns_for_schemapath =
             IF targetNamespace(path) # None
             THEN Put(@, path, targetNamespace(path)) ELSE @],
     loaded |-> TRUE, tried |-> tried]

\* what loading the schema file at path leaves: the schema object, the
\* workspace with the object cached, and the default namespace when asked for
Loaded(workspace, path, use_default_namespace, tried) ==
    [schema |-> [path |-> path], schema_path |-> path,
     workspace |->
       [workspace EXCEPT
          !.schemas_for_xsdpath = Put(@, path, [path |-> path]),
          !.default_xmlns_for_schemapath =
             IF targetNamespace(path) # None /\ use_default_namespace
             THEN Put(@, path, targetNamespace(path)) ELSE @],
     loaded |-> TRUE, tried |-> tried]

\* a locator loop that caches the schema object before it finds that the
\* schema does not load
RECURSIVE LocateCacheBroken(_, _, _, _)
LocateCacheBroken(workspace, uri, content, i) ==
    LET locators == workspace.options IN
    IF i > Len(locators)
    THEN [schema |-> NoSchema, schema_path |-> << >>, workspace |-> workspace,
          loaded |-> FALSE, tried |-> Len(locators)]
    ELSE LET c == Candidate(locators[i], uri, content) IN
         IF c.path = << >>
         THEN LocateCacheBroken(workspace, uri, content, i + 1)
         ELSE IF LoadFails(c.path)
         THEN [schema |-> NoSchema, schema_path |-> << >>,
               workspace |->
                 [workspace EXCEPT
                    !.schemas_for_xsdpath = Put(@, c.path, [path |-> c.path])],
               loaded |-> FALSE, tried |-> i]
         ELSE Loaded(workspace, c.path, c.use_default_namespace, i)

\* a locator loop that gives up at a locator it does not recognize
RECURSIVE LocateStopAtUnknown(_, _, _, _)
LocateStopAtUnknown(workspace, uri, content, i) ==
    LET locators == workspace.options IN
    IF i > Len(locators)
    THEN [schema |-> NoSchema, schema_path |-> << >>, workspace |-> workspace,
          loaded |-> FALSE, tried |-> Len(locators)]
    ELSE LET c == Candidate(locators[i], uri, content) IN
         IF locators[i].kind = "other" \/ (c.path # << >> /\ LoadFails(c.path))
         THEN [schema |-> NoSchema, schema_path |-> << >>,
               workspace |-> workspace, loaded |-> FALSE, tried |-> i]
         ELSE IF c.path = << >>
         THEN LocateStopAtUnknown(workspace, uri, content, i + 1)
         ELSE Loaded(workspace, c.path, c.use_default_namespace, i)

\* a locator loop that goes on to the end and keeps the last candidate
RECURSIVE LocateLastFrom(_, _, _, _)
LocateLastFrom(workspace, uri, content, i) ==
    LET locators == workspace.options
        later == IF i >= Len(locators)
                 THEN [schema |-> NoSchema, schema_path |-> << >>,
                       workspace |-> workspace, loaded |-> FALSE,
                       tried |-> Len(locators)]
                 ELSE LocateLastFrom(workspace, uri, content, i + 1)
    IN  IF i > Len(locators) \/ later.schema_path # << >> THEN later
        ELSE LET c == Candidate(locators[i], uri, content) IN
             IF c.path = << >> \/ LoadFails(c.path) THEN later
             ELSE Loaded(workspace, c.path, c.use_default_namespace,
                         Len(locators))

\* a locator loop that goes on to the next locator when a schema fails to load
RECURSIVE LocateSkipBroken(_, _, _, _)
LocateSkipBroken(workspace, uri, content, i) ==
    LET locators == workspace.options IN
    IF i > Len(locators)
    THEN [schema |-> NoSchema, schema_path |-> << >>, workspace |-> workspace,
          loaded |-> FALSE, tried |-> Len(locators)]
    ELSE LET c == Candidate(locators[i], uri, content) IN
         IF c.path = << >> \/ LoadFails(c.path)
         THEN LocateSkipBroken(workspace, uri, content, i + 1)
         ELSE Loaded(workspace, c.path, c.use_default_namespace, i)

\* The locator loop (lines 187-245).  The result is the returned schema and
\* schema path, the workspace as the call leaves it, whether the call
\* compiled a schema object, and how many locators the loop went through.
RECURSIVE LocateFrom(_, _, _, _)
LocateFrom(workspace, uri, content, i) ==
    LET locators == workspace.options IN
    IF i > Len(locators)
    THEN [schema |-> NoSchema, schema_path |-> << >>, workspace |-> workspace,
          loaded |-> FALSE, tried |-> Len(locators)]
    ELSE LET c == Candidate(locators[i], uri, content) IN
         IF c.path = << >>
         THEN LocateFrom(workspace, uri, content, i + 1)
         ELSE IF LoadFails(c.path)
         THEN [schema |-> NoSchema, schema_path |-> << >>,
               workspace |-> workspace, loaded |-> FALSE, tried |-> i]
         ELSE Loaded(workspace, c.path, c.use_default_namespace, i)

\* a lookup that does not consult the bindings of the workspace
ResolveUnbound(wss, root_uri, uri, content) ==
    IF root_uri \notin DOMAIN wss
    THEN [schema |-> NoSchema, schema_path |-> << >>, loaded |-> FALSE,
          tried |-> 0]
    ELSE IF XMLSyntaxError(content)
    THEN [schema |-> NoSchema, schema_path |-> << >>,
          workspace |-> wss[root_uri], loaded |-> FALSE, tried |-> 0]
    ELSE LocateFrom(wss[root_uri], uri, content, 1)

\* _get_schema_for_doc(ls, uri, content); workspaces is ls.workspaces and
\* root_uri is uri.rpartition("/")[0]
_get_schema_for_doc(wss, root_uri, uri, content) ==
    IF root_uri \notin DOMAIN wss
    THEN [schema |-> NoSchema, schema_path |-> << >>, loaded |-> FALSE,
          tried |-> 0]
    ELSE LET workspace == wss[root_uri] IN
         IF XMLSyntaxError(content)
         THEN [schema |-> NoSchema, schema_path |-> << >>,
               workspace |-> workspace, loaded |-> FALSE, tried |-> 0]
         ELSE IF /\ uri \in DOMAIN workspace.schemapaths_for_uri
                 /\ workspace.schemapaths_for_uri[uri]
                       \in DOMAIN workspace.schemas_for_xsdpath
         THEN [schema |-> workspace.schemas_for_xsdpath[
                             workspace.schemapaths_for_uri[uri]],
               schema_path |-> workspace.schemapaths_for_uri[uri],
               workspace |-> workspace, loaded |-> FALSE, tried |-> 0]
         ELSE LocateFrom(workspace, uri, content, 1)

\* ------------------------------------------ Schema Resolver, workspace.py
\* _find_schemapath_by_rootelement (workspace.py): the name must be made of
\* letters, digits, '.', '_' and '-' and hold no "..", and the file must lie
\* in the search directory
SafeName(tag) == AllowedChars(tag) /\ ~HasTraversal(tag)

RECURSIVE SafeRootElementFrom(_, _, _)
SafeRootElementFrom(tag, searchpaths, i) ==
    IF i > Len(searchpaths) THEN << >>
    ELSE IF /\ realpath(Xsd(searchpaths[i], tag))[1] = searchpaths[i]
            /\ exists(Xsd(searchpaths[i], tag))
    THEN realpath(Xsd(searchpaths[i], tag))
    ELSE SafeRootElementFrom(tag, searchpaths, i + 1)

find_schemapath_by_rootelement(content, searchpaths) ==
    IF ~SafeName(ParseRoot(content)) THEN << >>
    ELSE SafeRootElementFrom(ParseRoot(content), searchpaths, 1)

\* the files schema_file.exists() is asked about at line 56: none for a
\* rejected name, else one per search path the file lies in, up to the
\* first that exists
SafeRootElementProbes(content, searchpaths) ==
    LET tag == ParseRoot(content)
        inside(i) == realpath(Xsd(searchpaths[i], tag))[1] = searchpaths[i]
    IN  IF ~SafeName(tag) THEN {}
        ELSE {realpath(Xsd(searchpaths[i], tag)) :
                i \in {j \in 1..Len(searchpaths) :
                         /\ inside(j)
                         /\ \A k \in 1..(j - 1) :
                               ~(inside(k) /\ exists(Xsd(searchpaths[k], tag)))}}

\* _validate_schema_path: the file exists and is a .xsd or .xml file
_validate_schema_path(schema_path) ==
    IF schema_path = << >> THEN << >>
    ELSE IF ~exists(schema_path) THEN << >>
    ELSE IF schema_path[Len(schema_path)] \notin {".xsd", ".xml"} THEN << >>
    ELSE realpath(schema_path)

\* hint tokens that start with "file:", and the file one names for a document
IsFileHint(hint) == hint \in {"file:../p/x", "file:y"}
\* Path(to_fs_path(doc_uri)).resolve().parent
doc_dir(uri) == "ws"
FileOfHint(uri, hint) ==
    IF hint = "file:y" THEN Xsd(doc_dir(uri), "y")
    ELSE realpath(Xsd(doc_dir(uri), "../p/x"))

\* _find_schemapath_by_location_hint (workspace.py), lines 106-139: the
\* first file: token whose file passes _validate_schema_path
RECURSIVE FileHintFrom(_, _, _)
FileHintFrom(hints, uri, i) ==
    IF i > Len(hints) THEN << >>
    ELSE IF /\ IsFileHint(hints[i])
            /\ _validate_schema_path(FileOfHint(uri, hints[i])) # << >>
    THEN _validate_schema_path(FileOfHint(uri, hints[i]))
    ELSE FileHintFrom(hints, uri, i + 1)

\* lines 156-186: the first token the map names a plain file name for, when
\* that file exists next to the map
SafeFileName(name) == ~HasTraversal(name)

RECURSIVE MapHintFrom(_, _, _)
MapHintFrom(hints, map_path, i) ==
    IF i > Len(hints) THEN << >>
    ELSE LET m == schema_map(map_path) IN
         IF /\ hints[i] \in DOMAIN m
            /\ SafeFileName(m[hints[i]])
            /\ realpath(Xsd(dirname(map_path)[1], m[hints[i]]))[1]
                  = dirname(map_path)[1]
            /\ exists(Xsd(dirname(map_path)[1], m[hints[i]]))
         THEN realpath(Xsd(dirname(map_path)[1], m[hints[i]]))
         ELSE MapHintFrom(hints, map_path, i + 1)

\* the schema files schema_file.exists() is asked about at line 178
SafeHintProbes(content, map_path) ==
    LET hints == HintsOf(content)
        m == schema_map(map_path)
        dir == dirname(map_path)[1]
        file(i) == Xsd(dir, m[hints[i]])
        passes(i) == /\ hints[i] \in DOMAIN m
                     /\ SafeFileName(m[hints[i]])
                     /\ realpath(file(i))[1] = dir
    IN  {realpath(file(i)) :
           i \in {j \in 1..Len(hints) :
                    /\ passes(j)
                    /\ \A k \in 1..(j - 1) : passes(k) => ~exists(file(k))}}

\* a location-hint search that looks the tokens up in the map before it
\* tries the file: tokens
HintMapFirst(content, map_path, uri) ==
    IF HintsOf(content) = << >> THEN << >>
    ELSE IF map_path = MapPath /\ MapHintFrom(HintsOf(content), map_path, 1) # << >>
    THEN MapHintFrom(HintsOf(content), map_path, 1)
    ELSE FileHintFrom(HintsOf(content), uri, 1)

find_schemapath_by_location_hint(content, map_path, uri) ==
    IF HintsOf(content) = << >> THEN << >>
    ELSE IF FileHintFrom(HintsOf(content), uri, 1) # << >>
    THEN FileHintFrom(HintsOf(content), uri, 1)
    ELSE IF map_path # MapPath THEN << >>
    ELSE MapHintFrom(HintsOf(content), map_path, 1)

\* the patterns loop of Workspace.get_schema_for_doc (lines 245-263)
RECURSIVE ValidPatternFrom(_, _, _)
ValidPatternFrom(name, patterns, i) ==
    IF i > Len(patterns) THEN [path |-> << >>, use_default_namespace |-> FALSE]
    ELSE IF /\ fnmatch(name, patterns[i].pattern)
            /\ _validate_schema_path(patterns[i].path) # << >>
         THEN [path |-> _validate_schema_path(patterns[i].path),
               use_default_namespace |-> patterns[i].useDefaultNamespace]
         ELSE ValidPatternFrom(name, patterns, i + 1)

\* the candidate one locator produces (workspace.py, lines 231-265)
WorkspaceCandidate(locator, uri, content) ==
    IF locator.kind = "rootElement" /\ locator.searchPaths # << >>
    THEN [path |-> find_schemapath_by_rootelement(content, locator.searchPaths),
          use_default_namespace |-> FALSE]
    ELSE IF locator.kind = "locationHint" /\ locator.locationHint # << >>
    THEN [path |-> find_schemapath_by_location_hint(content,
                                                    locator.locationHint, uri),
          use_default_namespace |-> FALSE]
    ELSE IF locator.kind = "patterns"
    THEN ValidPatternFrom(basename(uri), locator.patterns, 1)
    ELSE [path |-> << >>, use_default_namespace |-> FALSE]

\* the locator loop of Workspace.get_schema_for_doc (lines 230-303): it also
\* binds the uri to the path of the schema it loaded
RECURSIVE WorkspaceLocateFrom(_, _, _, _)
WorkspaceLocateFrom(workspace, uri, content, i) ==
    LET locators == workspace.options IN
    IF i > Len(locators)
    THEN [schema |-> NoSchema, schema_path |-> << >>, workspace |-> workspace,
          loaded |-> FALSE, tried |-> Len(locators)]
    ELSE LET c == WorkspaceCandidate(locators[i], uri, content) IN
         IF c.path = << >>
         THEN WorkspaceLocateFrom(workspace, uri, content, i + 1)
         ELSE IF LoadFails(c.path)
         THEN [schema |-> NoSchema, schema_path |-> << >>,
               workspace |-> workspace, loaded |-> FALSE, tried |-> i]
         ELSE LET r == Loaded(workspace, c.path, c.use_default_namespace, i)
              IN  [r EXCEPT !.workspace.schemapaths_for_uri =
                               Put(@, uri, c.path)]

\* Workspace.get_schema_for_doc(self, uri, content)
get_schema_for_doc(workspace, uri, content) ==
    IF XMLSyntaxError(content)
    THEN [schema |-> NoSchema, schema_path |-> << >>, workspace |-> workspace,
          loaded |-> FALSE, tried |-> 0]
    ELSE IF /\ uri \in DOMAIN workspace.schemapaths_for_uri
            /\ workspace.schemapaths_for_uri[uri]
                  \in DOMAIN workspace.schemas_for_xsdpath
    THEN [schema |-> workspace.schemas_for_xsdpath[
                        workspace.schemapaths_for_uri[uri]],
          schema_path |-> workspace.schemapaths_for_uri[uri],
          workspace |-> workspace, loaded |-> FALSE, tried |-> 0]
    ELSE WorkspaceLocateFrom(workspace, uri, content, 1)

\* ---------------------------------------------------- Validation Pipeline
\* Elements a schema declares.
Declared(path) ==
    IF path = Xsd("s", "a") THEN {"a", "b"}
    ELSE IF path = Xsd("p", "x") THEN {"a"}
    ELSE {"h"}

\* 1-based line of the character at index i
LineAt(content, i) ==
    1 + Cardinality({j \in 1..(i - 1) : content[j] = NL})

\* xmlschema.XMLResource(content) raises when the text holds no element: on
\* the empty text without a position, otherwise with ": line L, column C".
ResourceError(content) ==
    IF content = << >>
    THEN [raised |-> TRUE, hasPosition |-> FALSE, line |-> 0, column |-> 0]
    ELSE IF XMLSyntaxError(content)
    THEN [raised |-> TRUE, hasPosition |-> TRUE,
          line |-> LineAt(content, Len(content) + 1), column |-> 1]
    ELSE [raised |-> FALSE, hasPosition |-> FALSE, line |-> 0, column |-> 0]

\* The document tree: the first element is the root, the elements after it
\* are its children. ChildLines is the source line of each child, in order.
RootIndex(content) ==
    CHOOSE i \in 1..Len(content) :
        IsLetter(content[i]) /\ \A j \in 1..(i - 1) : ~IsLetter(content[j])
RECURSIVE LinesFrom(_, _)
LinesFrom(content, i) ==
    IF i > Len(content) THEN << >>
    ELSE IF IsLetter(content[i])
    THEN << LineAt(content, i) >> \o LinesFrom(content, i + 1)
    ELSE LinesFrom(content, i + 1)
ChildLines(content) == LinesFrom(content, RootIndex(content) + 1)
ChildNumber(content, i) ==
    Cardinality({j \in (RootIndex(content) + 1)..i : IsLetter(content[j])})

\* schema.iter_errors(xml_resource): one error per element the schema does
\* not declare, in document order. The error of an undeclared root is at the
\* root; the error of an undeclared child is at its parent (sourceline, elem)
\* and its reason names the position of the child. An error is a record of
\* sourceline (0: none), reason, position (the N of "position N" in the
\* reason, 0: the reason names none) and children (the source line of each
\* child of elem, 0: none).
RECURSIVE ErrorsFrom(_, _, _)
ErrorsFrom(schema, content, i) ==
    IF i > Len(content) THEN << >>
    ELSE IF IsLetter(content[i]) /\ content[i] \notin Declared(schema.path)
    THEN << [sourceline |-> LineAt(content, RootIndex(content)),
             reason |-> content[i],
             position |-> ChildNumber(content, i),
             children |-> ChildLines(content)] >>
         \o ErrorsFrom(schema, content, i + 1)
    ELSE ErrorsFrom(schema, content, i + 1)

iter_errors(schema, default_xmlns, content) == ErrorsFrom(schema, content, 1)

\* Position(line, character), and the diagnostic the loop body builds
Position(line, character) == [line |-> line, character |-> character]

\* a loop body that never looks at the children of the element
DiagnosticAtParent(error) ==
    LET line == IF error.sourceline # 0 THEN error.sourceline ELSE 1
        pos == Position(line - 1, 1 - 1)
    IN  [range |-> [start |-> pos, end |-> pos], message |-> error.reason,
         severity |-> "Error"]

\* lines 289-331, the body of the loop: the line starts at 1, becomes the
\* source line of the error when it has one, and the source line of child
\* N - 1 of error.elem when the reason names "position N", the child exists
\* (no IndexError) and has a source line; the column stays 1
DiagnosticOf(error) ==
    LET own == IF error.sourceline # 0 THEN error.sourceline ELSE 1
        line == IF /\ error.position # 0
                   /\ error.position <= Len(error.children)
                   /\ error.children[error.position] # 0
                THEN error.children[error.position]
                ELSE own
        pos == Position(line - 1, 1 - 1)
    IN  [range |-> [start |-> pos, end |-> pos], message |-> error.reason,
         severity |-> "Error"]

\* lines 289-331: one diagnostic per error; of each the line and character
\* of the start of its range, and its message
DiagnosticsOf(errors) ==
    [k \in 1..Len(errors) |->
        [line |-> DiagnosticOf(errors[k]).range.start.line,
         character |-> DiagnosticOf(errors[k]).range.start.character,
         message |-> DiagnosticOf(errors[k]).message]]

\* One ls.publish_diagnostics call: the set published for uri, and what the
\* pass that produced it had validated.
Publication(uri, diagnostics, content, schema, default_xmlns) ==
    [uri |-> uri, diagnostics |-> diagnostics, content |-> content,
     schema |-> schema, default_xmlns |-> default_xmlns]

\* a validation pass that publishes only when it has something to report
ValidateErrorsOnly(uri, content, schema, default_xmlns) ==
    IF schema = NoSchema \/ ResourceError(content).raised
       \/ iter_errors(schema, default_xmlns, content) = << >>
    THEN << >>
    ELSE << Publication(uri,
              DiagnosticsOf(iter_errors(schema, default_xmlns, content)),
              content, schema, default_xmlns) >>

\* a validation pass that only logs an exception it finds no position in
ValidateSilentDrop(uri, content, schema, default_xmlns) ==
    IF schema = NoSchema
    THEN << Publication(uri, << >>, content, schema, default_xmlns) >>
    ELSE LET e == ResourceError(content) IN
         IF e.raised /\ ~e.hasPosition THEN << >>
         ELSE IF e.raised
         THEN << Publication(uri,
                   << [line |-> e.line - 1, character |-> e.column - 1,
                       message |-> "syntax"] >>,
                   content, schema, default_xmlns) >>
         ELSE << Publication(uri,
                   DiagnosticsOf(iter_errors(schema, default_xmlns, content)),
                   content, schema, default_xmlns) >>

\* _validate_document: the sequence of publications it makes
_validate_document(uri, content, schema, default_xmlns) ==
    IF schema = NoSchema
    THEN << Publication(uri, << >>, content, schema, default_xmlns) >>
    ELSE LET e == ResourceError(content) IN
         IF e.raised
         THEN << Publication(uri,
                   IF e.hasPosition
                   THEN << [line |-> e.line - 1, character |-> e.column - 1,
                            message |-> "syntax"] >>
                   ELSE << >>,
                   content, schema, default_xmlns) >>
         ELSE << Publication(uri,
                   DiagnosticsOf(iter_errors(schema, default_xmlns, content)),
                   content, schema, default_xmlns) >>

\* _validate_document of server.py (lines 202-285): no default namespace, and
\* the position of a parser exception is (line - 2, column - 1)
_validate_document_server(uri, content, schema) ==
    IF schema = NoSchema
    THEN << Publication(uri, << >>, content, schema, None) >>
    ELSE LET e == ResourceError(content) IN
         IF e.raised
         THEN << Publication(uri,
                   IF e.hasPosition
                   THEN << [line |-> e.line - 2, character |-> e.column - 1,
                            message |-> "syntax"] >>
                   ELSE << >>,
                   content, schema, None) >>
         ELSE << Publication(uri,
                   DiagnosticsOf(iter_errors(schema, None, content)),
                   content, schema, None) >>

\* ------------------------------------------------------------------ state
VARIABLES
    initialized,     \* the initialize request has been served
    workspaces,      \* ls.workspaces: root uri -> workspace dict
    session_cache,   \* uri -> [content, timer, age]; age is seconds since set
    orphans,         \* bag of live timers no session refers to any more
    opened,          \* documents the editor has open (didOpen, no didClose yet)
    ev,              \* what the last step did
    ref,             \* uri -> content the edits received since open describe
    burst            \* documents in a burst of changes (see InBurst)

vars ==
    << initialized, workspaces, session_cache, orphans, opened, ev, ref, burst >>

URIs == {"u1", "u2"}
RootUri == "ws"
\* uri.rpartition("/")[0]
root_uri(uri) == RootUri

Texts == { << "a" >>, << >> }

\* The document the editor works on, and what it opens it with.
Edited == {"u1"}
Opens == {<< uri, content >> : uri \in Edited, content \in Texts}

\* a threading.Timer: st is armed (waiting), running (woke, not cancelled) or
\* read (deferred_validation holds the content it read).  A session that
\* refers to a finished timer is as one that refers to none: cancel() on a
\* finished timer does nothing.  late tells that the timer woke while its
\* document was closed, stale that the content of its document was replaced
\* by another one after the timer was armed.
NoTimer ==
    [st |-> "none", uri |-> "", schema |-> NoSchema, default_xmlns |-> None,
     remaining |-> 0, content |-> << >>, late |-> FALSE, stale |-> FALSE]
Live(t) == t.st \in {"armed", "running", "read"}

\* a timer that is created and never started
UnstartedTimer(uri, schema, default_xmlns) == NoTimer

\* timer = threading.Timer(4.0, deferred_validation, args=[...]); timer.start()
NewTimer(uri, schema, default_xmlns) ==
    [st |-> "armed", uri |-> uri, schema |-> schema,
     default_xmlns |-> default_xmlns, remaining |-> Delay, content |-> << >>,
     late |-> FALSE, stale |-> FALSE]

\* a session that does not take the content it is given
EmptySession(content) == [content |-> << >>, timer |-> NoTimer, age |-> 0]

\* session_cache[uri] = {"content": content}
NewSession(content) == [content |-> content, timer |-> NoTimer, age |-> 0]

\* the timer a session dropped from the cache leaves behind
Dropped(cache, uri) ==
    IF uri \in DOMAIN cache /\ Live(cache[uri].timer)
    THEN SetToBag({cache[uri].timer}) ELSE EmptyBag

\* The timers of bag B once the document uri has the given content: those of
\* uri are stale when the content differs from the one the session had.
Stale(t) == [t EXCEPT !.stale = TRUE]
Fresh(t) == [t EXCEPT !.stale = FALSE]
Count(B, t) == IF t \in DOMAIN B THEN B[t] ELSE 0
Replaced(B, cache, uri, content) ==
    IF uri \notin DOMAIN cache \/ cache[uri].content = content THEN B
    ELSE [t2 \in {IF t.uri = uri THEN Stale(t) ELSE t : t \in DOMAIN B} |->
            IF t2.uri = uri
            THEN Count(B, Stale(t2)) + Count(B, Fresh(t2))
            ELSE B[t2]]

SessionTimers == {session_cache[u].timer : u \in DOMAIN session_cache}
AllTimers == {t \in SessionTimers : Live(t)} \cup BagToSet(orphans)
NumLive ==
    Cardinality({u \in DOMAIN session_cache : Live(session_cache[u].timer)})
    + BagCardinality(orphans)

Event(op, uri, pubs) ==
    [op |-> op, uri |-> uri, pubs |-> pubs, raised |-> FALSE, dropped |-> FALSE,
     armed |-> FALSE, cancelled |-> FALSE, text |-> << >>, late |-> FALSE,
     live |-> FALSE, before |-> << >>, batch |-> << >>]

Init ==
    /\ initialized = FALSE
    /\ workspaces = EmptyDict
    /\ session_cache = EmptyDict
    /\ orphans = EmptyBag
    /\ opened = {}
    /\ ev = Event("init", "", << >>)
    /\ ref = EmptyDict
    /\ burst = {}

\* ------------------------------------------------------------- operations
Options ==
    << UnknownLocator,
       PatternsLocator(<< [pattern |-> "u1", path |-> Xsd("p", "x"),
                           useDefaultNamespace |-> TRUE] >>),
       RootElementLocator(<< "s" >>),
       LocationHintLocator(MapPath) >>

\* initialize(ls, params): params.root_uri may be absent
initialize(has_root) ==
    /\ ~initialized
    /\ initialized' = TRUE
    /\ workspaces' =
         IF has_root
         THEN Put(workspaces, RootUri,
                  [options |-> Options, schemas_for_xsdpath |-> EmptyDict,
                   schemapaths_for_uri |-> EmptyDict,
                   default_xmlns_for_schemapath |-> EmptyDict])
         ELSE workspaces
    /\ ev' = Event("initialize", "", << >>)
    /\ UNCHANGED << session_cache, orphans, opened, ref, burst >>

\* did_open(ls, params)
did_open(uri, content) ==
    /\ initialized
    /\ uri \notin opened
    /\ LET r == _get_schema_for_doc(workspaces, root_uri(uri), uri, content)
           has_ws == root_uri(uri) \in DOMAIN workspaces
           bound == has_ws /\ r.schema_path # << >>
           workspace ==
               IF bound
               THEN [r.workspace EXCEPT
                       !.schemapaths_for_uri = Put(@, uri, r.schema_path)]
               ELSE r.workspace
           default_namespace ==
               IF bound /\ r.schema_path \in DOMAIN workspace.default_xmlns_for_schemapath
               THEN workspace.default_xmlns_for_schemapath[r.schema_path]
               ELSE None
       IN  /\ session_cache' = Put(session_cache, uri, NewSession(content))
           /\ orphans' = Replaced(orphans (+) Dropped(session_cache, uri),
                                  session_cache, uri, content)
           /\ workspaces' =
                IF has_ws THEN Put(workspaces, root_uri(uri), workspace)
                ELSE workspaces
           /\ ev' = [Event("did_open", uri,
                       _validate_document(uri, content, r.schema, default_namespace))
                     EXCEPT !.text = content]
    /\ opened' = opened \cup {uri}
    /\ ref' = Put(ref, uri, content)
    /\ burst' = burst \ {uri}
    /\ UNCHANGED initialized

\* The content the edits of a batch describe: every edit in order, each on
\* the content the previous one left, offsets clamped to the content.
RefOffset(content, pos) ==
    LET lines == LinesOf(content) IN
    IF pos.line >= Len(lines) THEN Len(content)
    ELSE Min(SumLens(lines, pos.line) + pos.character, Len(content))

RECURSIVE RefApplyFrom(_, _, _)
RefApplyFrom(content, changes, i) ==
    IF i > Len(changes) THEN content
    ELSE IF ~changes[i].hasRange
    THEN RefApplyFrom(changes[i].text, changes, i + 1)
    ELSE RefApplyFrom(
           Prefix(content, RefOffset(content, changes[i].start))
             \o changes[i].text
             \o Suffix(content, RefOffset(content, changes[i].end)),
           changes, i + 1)

RefApply(content, changes) == RefApplyFrom(content, changes, 1)

\* every edit of the batch names lines of the content it applies to, or the
\* line right after the last one
RECURSIVE RefInside(_, _, _)
RefInside(content, changes, i) ==
    IF i > Len(changes) THEN TRUE
    ELSE /\ changes[i].hasRange =>
              /\ changes[i].start.line <= Len(LinesOf(content))
              /\ changes[i].end.line <= Len(LinesOf(content))
         /\ RefInside(RefApplyFrom(content, << changes[i] >>, 1), changes, i + 1)

\* ref after a batch; a document is no longer followed once an edit names a
\* line further out or its text is longer than MaxLen
RefAfter(uri, changes) ==
    IF uri \notin DOMAIN ref THEN ref
    ELSE IF ~RefInside(ref[uri], changes, 1) THEN Pop(ref, uri)
    ELSE IF Len(RefApply(ref[uri], changes)) > MaxLen THEN Pop(ref, uri)
    ELSE Put(ref, uri, RefApply(ref[uri], changes))

\* the result of reading the document's file: open(to_fs_path(uri)).read()
NoFile == [ok |-> FALSE, content |-> << >>]
FileReads == {[ok |-> TRUE, content |-> t] : t \in Texts} \cup {NoFile}

\* the schema lookup of did_change (lines 402-413): [schema, default_namespace]
Lookup(wss, uri) ==
    IF root_uri(uri) \notin DOMAIN wss
    THEN [schema |-> NoSchema, default_namespace |-> None]
    ELSE LET workspace == wss[root_uri(uri)] IN
         IF uri \notin DOMAIN workspace.schemapaths_for_uri
         THEN [schema |-> NoSchema, default_namespace |-> None]
         ELSE LET schema_path == workspace.schemapaths_for_uri[uri] IN
              [schema |->
                 IF schema_path \in DOMAIN workspace.schemas_for_xsdpath
                 THEN workspace.schemas_for_xsdpath[schema_path] ELSE NoSchema,
               default_namespace |->
                 IF schema_path \in DOMAIN workspace.default_xmlns_for_schemapath
                 THEN workspace.default_xmlns_for_schemapath[schema_path]
                 ELSE None]

\* timers of uri that wait or run
LiveFor(uri) ==
    Cardinality({u \in DOMAIN session_cache :
                   u = uri /\ Live(session_cache[u].timer)})
    + BagCardinality([t \in {x \in BagToSet(orphans) : x.uri = uri} |-> orphans[t]])

\* A burst of changes of a document starts with a change that finds no timer
\* of the document alive and goes on while every further change finds the
\* timer of the previous change still waiting.
InBurst(uri, old) ==
    \/ LiveFor(uri) = 0
    \/ uri \in burst /\ LiveFor(uri) = 1 /\ \E t \in AllTimers :
                                               t.uri = uri /\ t.st = "armed"

\* a recovery that does not take what the file holds
RecoveredBlank(file) == NewSession(<< >>)

\* lines 388-390: the session recovered from the document's file
Recovered(file) == NewSession(file.content)

\* a change that resolves the schema of the document again, as an open does
ResolvedOnChange(wss, uri, cache) ==
    IF root_uri(uri) \notin DOMAIN wss \/ uri \notin DOMAIN cache THEN wss
    ELSE LET r == _get_schema_for_doc(wss, root_uri(uri), uri,
                                      cache[uri].content)
         IN  Put(wss, root_uri(uri),
                 IF r.schema_path = << >> THEN r.workspace
                 ELSE [r.workspace EXCEPT
                         !.schemapaths_for_uri = Put(@, uri, r.schema_path)])

\* ls.workspaces after did_change, whose session is now in cache: lines
\* 402-413 only read the binding, the schema and the default namespace
AfterChange(wss, uri, cache) == wss

\* did_change(ls, params); file is what reading the document's file gives
\* when the session is missing
did_change(uri, changes, file) ==
    /\ initialized
    /\ uri \in opened
    /\ uri \in DOMAIN session_cache => file = NoFile
    /\ LET missing == uri \notin DOMAIN session_cache
           cache == IF missing /\ file.ok
                    THEN Put(session_cache, uri, Recovered(file))
                    ELSE session_cache
           \* what a recovery read and the batch it then applied
           seen == IF missing THEN file.content ELSE << >>
           got == IF missing THEN changes ELSE << >>
       IN
       IF missing /\ ~file.ok
       THEN \* the file cannot be read: the change is dropped
            /\ ev' = [Event("did_change", uri, << >>) EXCEPT !.dropped = TRUE]
            /\ UNCHANGED << session_cache, orphans, ref, burst >>
       ELSE
       LET session == cache[uri]
           r == _apply_incremental_changes(session.content, changes)
           l == Lookup(workspaces, uri)
           old == session.timer
           timer == NewTimer(uri, l.schema, l.default_namespace)
       IN
       IF r.raised
       THEN \* IndexError leaves the handler before the content is stored
            /\ session_cache' = cache
            /\ orphans' = Replaced(orphans, session_cache, uri, session.content)
            /\ ev' = [Event("did_change", uri, << >>)
                      EXCEPT !.raised = TRUE, !.text = seen, !.batch = got]
            /\ ref' = RefAfter(uri, changes)
            /\ UNCHANGED burst
       ELSE
       /\ Len(r.content) <= MaxLen
       /\ ref' = RefAfter(uri, changes)
       /\ IF l.schema = NoSchema
          THEN /\ session_cache' =
                    [cache EXCEPT
                       ![uri].content = r.content,
                       ![uri].timer = IF Live(@) /\ r.content # session.content
                                      THEN Stale(@) ELSE @]
               /\ orphans' = Replaced(orphans, session_cache, uri, r.content)
               /\ ev' = [Event("did_change", uri, << >>)
                         EXCEPT !.text = seen, !.batch = got]
               /\ UNCHANGED burst
          ELSE /\ NumLive < MaxTimers
               /\ session_cache' =
                    [cache EXCEPT ![uri].content = r.content,
                                  ![uri].timer = timer]
               \* cancel() stops a timer that still waits; one that already
               \* woke runs on, and the session no longer refers to it
               /\ orphans' =
                    Replaced(IF old.st \in {"running", "read"}
                             THEN orphans (+) SetToBag({old}) ELSE orphans,
                             session_cache, uri, r.content)
               /\ ev' = [Event("did_change", uri,
                           _validate_document(uri, r.content, l.schema,
                                              l.default_namespace))
                         EXCEPT !.armed = TRUE,
                                !.cancelled = (old.st = "armed"),
                                !.text = seen, !.batch = got]
               /\ burst' = IF InBurst(uri, old) THEN burst \cup {uri}
                           ELSE burst \ {uri}
    /\ workspaces' = AfterChange(workspaces, uri, session_cache')
    /\ UNCHANGED << initialized, opened >>

\* did_save(ls, params); file is what reading the document's file gives
did_save(uri, file) ==
    /\ initialized
    /\ uri \in opened
    /\ IF file.ok
       THEN /\ session_cache' = Put(session_cache, uri, NewSession(file.content))
            /\ orphans' = Replaced(orphans (+) Dropped(session_cache, uri),
                                   session_cache, uri, file.content)
       ELSE UNCHANGED << session_cache, orphans >>
    /\ ev' = [Event("did_save", uri, << >>)
              EXCEPT !.text = file.content, !.raised = ~file.ok,
                     !.before = IF uri \in DOMAIN session_cache
                                THEN session_cache[uri].content
                                ELSE file.content]
    /\ ref' = Pop(ref, uri)
    /\ burst' = burst \ {uri}
    /\ UNCHANGED << initialized, workspaces, opened >>

\* a cleanup that unloads the schema of the document whoever else uses it
ReleasedAlways(workspace, uri) ==
    IF uri \notin DOMAIN workspace.schemapaths_for_uri THEN workspace
    ELSE [workspace EXCEPT
            !.schemapaths_for_uri = Pop(@, uri),
            !.schemas_for_xsdpath = Pop(@, workspace.schemapaths_for_uri[uri]),
            !.default_xmlns_for_schemapath =
               Pop(@, workspace.schemapaths_for_uri[uri])]

\* a cleanup that removes the binding and unloads nothing
ReleasedKeep(workspace, uri) ==
    IF uri \notin DOMAIN workspace.schemapaths_for_uri THEN workspace
    ELSE [workspace EXCEPT !.schemapaths_for_uri = Pop(@, uri)]

\* the cleanup of did_close (lines 465-482) on the workspace of the document
Released(workspace, uri) ==
    IF uri \notin DOMAIN workspace.schemapaths_for_uri THEN workspace
    ELSE LET schema_path == workspace.schemapaths_for_uri[uri]
             rest == Pop(workspace.schemapaths_for_uri, uri)
         IN  IF schema_path \notin Values(rest)
             THEN [workspace EXCEPT
                     !.schemapaths_for_uri = rest,
                     !.schemas_for_xsdpath = Pop(@, schema_path),
                     !.default_xmlns_for_schemapath = Pop(@, schema_path)]
             ELSE [workspace EXCEPT !.schemapaths_for_uri = rest]

\* what did_close leaves of session_cache: it does not touch it
ClosedCache(cache, uri) == cache

\* did_close(ls, params)
did_close(uri) ==
    /\ initialized
    /\ uri \in opened
    /\ workspaces' =
         IF root_uri(uri) \in DOMAIN workspaces
         THEN Put(workspaces, root_uri(uri),
                  Released(workspaces[root_uri(uri)], uri))
         ELSE workspaces
    /\ session_cache' = ClosedCache(session_cache, uri)
    /\ opened' = opened \ {uri}
    /\ ev' = Event("did_close", uri, << >>)
    /\ ref' = Pop(ref, uri)
    /\ burst' = burst \ {uri}
    /\ UNCHANGED << initialized, orphans >>

\* ------------------------------------------------------------ timer thread
\* where a live timer is: held by the session of its uri, or orphaned
Places ==
    {[held |-> TRUE, timer |-> session_cache[u].timer] : u \in DOMAIN session_cache}
    \cup {[held |-> FALSE, timer |-> t] : t \in BagToSet(orphans)}

\* the timer at place pl becomes t2
Becomes(pl, t2) ==
    IF pl.held
    THEN /\ session_cache' =
              [session_cache EXCEPT ![pl.timer.uri].timer =
                                       IF Live(t2) THEN t2 ELSE NoTimer]
         /\ UNCHANGED orphans
    ELSE /\ orphans' = (orphans (-) SetToBag({pl.timer}))
                       (+) (IF Live(t2) THEN SetToBag({t2}) ELSE EmptyBag)
         /\ UNCHANGED session_cache

\* Timer.run: the delay has elapsed and the timer was not cancelled
timer_wake(pl) ==
    /\ pl.timer.st = "armed"
    /\ pl.timer.remaining = 0
    /\ Becomes(pl, [pl.timer EXCEPT !.st = "running",
                                    !.late = (pl.timer.uri \notin opened)])
    /\ ev' = [Event("timer_wake", pl.timer.uri, << >>)
              EXCEPT !.late = (pl.timer.uri \notin opened), !.live = TRUE]
    /\ burst' = burst \ {pl.timer.uri}
    /\ UNCHANGED << initialized, workspaces, opened, ref >>

\* the content the timer itself carries instead of the session's
ContentOfTimer(cache, t) == t.content

\* the content deferred_validation validates (line 429)
ContentAtFire(cache, t) == cache[t.uri].content

\* a deferred validation that goes on with an empty text when the session
\* is missing
ValidateWithoutSession(cache, t) ==
    [t EXCEPT !.st = "read",
              !.content = IF t.uri \in DOMAIN cache
                          THEN cache[t.uri].content ELSE << >>]

\* deferred_validation, lines 427-432: read the session's content, or give
\* up when the session is missing
deferred_validation(cache, t) ==
    IF t.uri \in DOMAIN cache
    THEN [t EXCEPT !.st = "read", !.content = ContentAtFire(cache, t)]
    ELSE [t EXCEPT !.st = "done"]

timer_read(pl) ==
    /\ pl.timer.st = "running"
    /\ LET t2 == deferred_validation(session_cache, pl.timer) IN
       /\ Becomes(pl, t2)
       /\ ev' = [Event("timer_read", pl.timer.uri, << >>)
                 EXCEPT !.dropped = (pl.timer.uri \notin DOMAIN session_cache),
                        !.text = t2.content, !.late = pl.timer.late,
                        !.live = Live(t2)]
    /\ UNCHANGED << initialized, workspaces, opened, ref, burst >>

\* a deferred validation that looks the schema of its document up when it
\* runs
SchemaLookedUp(wss, t) == Lookup(wss, t.uri)

\* doc_schema and default_xmlns of deferred_validation: the args the timer
\* was created with
SchemaOfTimer(wss, t) ==
    [schema |-> t.schema, default_namespace |-> t.default_xmlns]

\* deferred_validation, line 430: validate what was read and publish
timer_publish(pl) ==
    /\ pl.timer.st = "read"
    /\ Becomes(pl, NoTimer)
    /\ ev' = [Event("timer_publish", pl.timer.uri,
                _validate_document(pl.timer.uri, pl.timer.content,
                                   SchemaOfTimer(workspaces, pl.timer).schema,
                                   SchemaOfTimer(workspaces, pl.timer).default_namespace))
              EXCEPT !.text = pl.timer.content, !.late = pl.timer.late]
    /\ UNCHANGED << initialized, workspaces, opened, ref, burst >>

\* ------------------------------------------------------------------- time
\* Session ages are counted in whole periods of TickLen seconds; the Delay a
\* timer waits is short against a period and does not add to the count.
Armed == {t \in AllTimers : t.st = "armed"}
Max0(n) == IF n < 0 THEN 0 ELSE n
Elapse(t, d) ==
    IF t.st = "armed" THEN [t EXCEPT !.remaining = Max0(@ - d)] ELSE t

\* d seconds pass: the sessions age by aging seconds, the waiting timers come
\* d seconds closer, the sessions set TTL seconds ago or more expire
Pass(d, aging) ==
    LET kept == {u \in DOMAIN session_cache : session_cache[u].age + aging < TTL}
        expired == (DOMAIN session_cache) \ kept
        left == {session_cache[u].timer : u \in expired}
        old == BagToSet(orphans)
    IN  /\ session_cache' =
             [u \in kept |->
                [session_cache[u] EXCEPT !.age = @ + aging,
                                         !.timer = Elapse(@, d)]]
        /\ orphans' =
             [t2 \in {Elapse(t, d) : t \in old} |->
                orphans[CHOOSE t \in old : Elapse(t, d) = t2]]
             (+) SetToBag({Elapse(t, d) : t \in {x \in left : Live(x)}})
        /\ ref' = [u \in (DOMAIN ref) \cap kept |-> ref[u]]

\* the Delay of the waiting timers elapses
Wait ==
    /\ Armed # {}
    /\ \A t \in Armed : t.remaining > 0
    /\ Pass(Delay, 0)
    /\ ev' = Event("wait", "", << >>)
    /\ UNCHANGED << initialized, workspaces, opened, burst >>

\* a period of TickLen seconds passes
Tick ==
    /\ DOMAIN session_cache # {}
    /\ \A t \in Armed : t.remaining > 0
    /\ Pass(TickLen, TickLen)
    /\ ev' = Event("tick", "", << >>)
    /\ UNCHANGED << initialized, workspaces, opened, burst >>

\* ------------------------------------------------------------------ inputs
Pos(l, c) == [line |-> l, character |-> c]
Full(text) ==
    [hasRange |-> FALSE, start |-> Pos(0, 0), end |-> Pos(0, 0), text |-> text]
Replace(s, e, text) == [hasRange |-> TRUE, start |-> s, end |-> e, text |-> text]

Batches ==
    { << Replace(Pos(0, 0), Pos(0, 0), << "b" >>) >>,
      << Replace(Pos(0, 0), Pos(0, 1), << >>) >>,
      << Full(<< "a" >>) >>,
      << Full(<< "a" >>), Replace(Pos(0, 1), Pos(0, 1), << "b" >>) >>,
      << Replace(Pos(2, 0), Pos(2, 0), << "a" >>) >> }

Next ==
    \/ \E has_root \in BOOLEAN : initialize(has_root)
    \/ \E o \in Opens : did_open(o[1], o[2])
    \/ \E uri \in Edited, changes \in Batches, file \in FileReads :
          did_change(uri, changes, file)
    \/ \E uri \in Edited, file \in FileReads : did_save(uri, file)
    \/ \E uri \in Edited : did_close(uri)
    \/ \E pl \in Places : timer_wake(pl)
    \/ \E pl \in Places : timer_read(pl)
    \/ \E pl \in Places : timer_publish(pl)
    \/ Wait
    \/ Tick

Spec == Init /\ [][Next]_vars

\* ------------------------------------------- the text functions on their own
\* One call on one input, from the initial state.
\* Every text of up to MaxLen characters, every position up to line MaxLine
\* and character MaxChar, and batches of one or two edits.
Alphabet == {"a", NL}
Contents == UNION {[1..n -> Alphabet] : n \in 0..MaxLen}
Positions == {Pos(l, c) : l \in 0..MaxLine, c \in 0..MaxChar}
Before(p, q) == p.line < q.line \/ (p.line = q.line /\ p.character <= q.character)
Inserts == {Replace(p, p, << "b" >>) : p \in Positions}
Edits ==
    {Replace(r[1], r[2], t) :
        r \in {x \in Positions \X Positions : Before(x[1], x[2])},
        t \in {<< >>, << "b" >>}}
    \cup {Full(<< "a" >>), Full(<< >>)}
EditBatches ==
    {<< e >> : e \in Edits} \cup {<< e, f >> : e \in Edits, f \in Inserts}

\* _apply_incremental_changes(content, changes) on its own
apply_edits(content, changes) ==
    /\ ev.op = "init"
    /\ ev' = [op |-> "apply_edits", content |-> content, changes |-> changes,
              result |-> _apply_incremental_changes(content, changes)]
    /\ UNCHANGED << initialized, workspaces, session_cache, orphans, opened,
                    ref, burst >>

\* _pos_to_offset2(content, pos) on its own
pos_to_offset(content, pos) ==
    /\ ev.op = "init"
    /\ ev' = [op |-> "offset", content |-> content, pos |-> pos,
              result |-> _pos_to_offset2(content, pos)]
    /\ UNCHANGED << initialized, workspaces, session_cache, orphans, opened,
                    ref, burst >>

NextText ==
    \/ \E content \in Contents, changes \in EditBatches :
          apply_edits(content, changes)
    \/ \E content \in Contents, pos \in Positions : pos_to_offset(content, pos)

SpecText == Init /\ [][NextText]_vars

\* ------------------------------------------- the schema resolver on its own
\* One workspace, two documents, and the resolver called on any document with
\* any content in any order; impl tells whose resolver the workspace runs,
\* the dict of xmllsp.py or the Workspace object of workspace.py.  A document
\* is resolved when it is opened and released when it is closed.
OptionsRootFirst ==
    << RootElementLocator(<< "s" >>),
       LocationHintLocator(MapPath),
       PatternsLocator(<< [pattern |-> "*", path |-> Xsd("p", "x"),
                           useDefaultNamespace |-> TRUE] >>) >>
\* a pattern that does not ask for the default namespace, then root elements
OptionsPlain ==
    << PatternsLocator(<< [pattern |-> "u1", path |-> Xsd("p", "x"),
                           useDefaultNamespace |-> FALSE] >>),
       RootElementLocator(<< "s" >>) >>
\* patterns without a path and with the path of a file that does not exist
\* before patterns with a schema
OptionsPatterns ==
    << PatternsLocator(<< [pattern |-> "u2", path |-> << >>,
                           useDefaultNamespace |-> TRUE],
                          [pattern |-> "u1", path |-> Xsd("q", "n"),
                           useDefaultNamespace |-> TRUE],
                          [pattern |-> "*", path |-> Xsd("p", "x"),
                           useDefaultNamespace |-> FALSE],
                          [pattern |-> "*", path |-> Xsd("s", "a"),
                           useDefaultNamespace |-> TRUE] >>) >>
Configs == {Options, OptionsRootFirst, OptionsPlain, OptionsPatterns}
Impls == {"xmllsp", "workspace"}
ResolveTexts ==
    { << "a" >>, << "b" >>, << "h" >>, << "c" >>, << "g" >>, << "f" >>,
      << "../p/x" >>, << >>, << "y" >>, << "h", "y" >>, << "y", "h" >> }

\* initialize / Workspace(root_uri, initialization_options)
configure(options, impl) ==
    /\ ~initialized
    /\ initialized' = TRUE
    /\ workspaces' =
         Put(workspaces, RootUri,
             [options |-> options, schemas_for_xsdpath |-> EmptyDict,
              schemapaths_for_uri |-> EmptyDict,
              default_xmlns_for_schemapath |-> EmptyDict, impl |-> impl])
    /\ ev' = Event("configure", "", << >>)
    /\ UNCHANGED << session_cache, orphans, opened, ref, burst >>

\* the workspace after did_open's lines 367-373: the lookup, then the binding
OpenResolved(workspace, uri, content) ==
    LET r == _get_schema_for_doc(workspaces, root_uri(uri), uri, content) IN
    IF r.schema_path # << >>
    THEN [r EXCEPT !.workspace.schemapaths_for_uri = Put(@, uri, r.schema_path)]
    ELSE r

\* one resolution of a document
resolve(uri, content) ==
    /\ initialized
    /\ LET workspace == workspaces[root_uri(uri)]
           r == IF workspace.impl = "xmllsp"
                THEN OpenResolved(workspace, uri, content)
                ELSE get_schema_for_doc(workspace, uri, content)
           bound == /\ uri \in DOMAIN workspace.schemapaths_for_uri
                    /\ workspace.schemapaths_for_uri[uri]
                          \in DOMAIN workspace.schemas_for_xsdpath
       IN  /\ workspaces' = Put(workspaces, root_uri(uri), r.workspace)
           /\ ev' = [op |-> "resolve", uri |-> uri, content |-> content,
                     schema |-> r.schema, schema_path |-> r.schema_path,
                     tried |-> r.tried, loaded |-> r.loaded,
                     \* before the call: the workspace, and the path bound to
                     \* the uri when its schema is cached
                     old |-> workspace,
                     bound |-> IF bound THEN workspace.schemapaths_for_uri[uri]
                               ELSE << >>]
    /\ opened' = opened \cup {uri}
    /\ UNCHANGED << initialized, session_cache, orphans, ref, burst >>

\* the cleanup of did_close / Workspace.release_document
release(uri) ==
    /\ initialized
    /\ uri \in opened
    /\ workspaces' = Put(workspaces, root_uri(uri),
                         Released(workspaces[root_uri(uri)], uri))
    /\ ev' = [op |-> "release", uri |-> uri,
              old |-> workspaces[root_uri(uri)]]
    /\ opened' = opened \ {uri}
    /\ UNCHANGED << initialized, session_cache, orphans, ref, burst >>

NextResolve ==
    \/ \E options \in Configs, impl \in Impls : configure(options, impl)
    \/ \E uri \in URIs, content \in ResolveTexts : resolve(uri, content)
    \/ \E uri \in URIs : release(uri)

SpecResolve == Init /\ [][NextResolve]_vars

\* ------------------------------------------ the validation pass on its own
\* One call of _validate_document, of xmllsp.py or of server.py, on any text
\* of up to MaxLen characters with any schema.
Validators == {"xmllsp", "server"}
ValidateAlphabet == {"a", "b", NL}
ValidateTexts == UNION {[1..n -> ValidateAlphabet] : n \in 0..MaxLen}
ValidateSchemas == {NoSchema, [path |-> Xsd("s", "a")], [path |-> Xsd("p", "x")]}
Namespaces == {None, "urn:x"}

validate(impl, uri, content, schema, default_xmlns) ==
    /\ ev.op = "init"
    /\ ev' = [op |-> "validate", impl |-> impl, uri |-> uri,
              content |-> content, schema |-> schema,
              default_xmlns |-> default_xmlns,
              pubs |-> IF impl = "xmllsp"
                       THEN _validate_document(uri, content, schema,
                                               default_xmlns)
                       ELSE _validate_document_server(uri, content, schema)]
    /\ UNCHANGED << initialized, workspaces, session_cache, orphans, opened,
                    ref, burst >>

NextValidate ==
    \E impl \in Validators, uri \in URIs, content \in ValidateTexts,
       schema \in ValidateSchemas, default_xmlns \in Namespaces :
        validate(impl, uri, content, schema, default_xmlns)

SpecValidate == Init /\ [][NextValidate]_vars

\* --------------------------------------- one schema-engine error on its own
\* The body of the error loop of _validate_document on any error: with or
\* without a source line, with or without "position N" in its reason, at an
\* element of up to MaxChildren children with or without source lines.
MaxSourceLine == 2
MaxChildren == 2
ErrorRecords ==
    [sourceline : 0..MaxSourceLine, reason : {"a"},
     position : 0..(MaxChildren + 1),
     children : UNION {[1..n -> 0..MaxSourceLine] : n \in 0..MaxChildren}]

diagnose(error) ==
    /\ ev.op = "init"
    /\ ev' = [op |-> "diagnose", error |-> error,
              diagnostic |-> DiagnosticOf(error)]
    /\ UNCHANGED << initialized, workspaces, session_cache, orphans, opened,
                    ref, burst >>

NextDiagnose == \E error \in ErrorRecords : diagnose(error)

SpecDiagnose == Init /\ [][NextDiagnose]_vars

\* ------------------------------------------------------------- completion
\* A compiled schema as completion sees it: the root elements, and of each
\* element node its name (namespace and local name) and its type, of each
\* type the element nodes of its content model (content.iter_elements()) and
\* its base type.  A node is an object: two nodes may carry the same name.
\* The root elements are global declarations and stand in no content model.
NoElement == "no element"
NoType == "no type"
Name(ns, local) == [ns |-> ns, local |-> local]

\* a root a with children b and c; b has children c and {urn:x}a and derives
\* from a type with children c and b
TreeGraph ==
    [root_elements |-> << "ra" >>,
     name |-> [ra |-> Name("", "a"), eb |-> Name("", "b"), ec |-> Name("", "c"),
               ec2 |-> Name("", "c"), exa |-> Name("urn:x", "a"),
               ec3 |-> Name("", "c"), eb2 |-> Name("", "b")],
     type |-> [ra |-> "Ta", eb |-> "Tb", ec |-> "Tc", ec2 |-> "Tc",
               exa |-> "Tc", ec3 |-> "Tc", eb2 |-> "Tb"],
     content |-> [Ta |-> << "eb", "ec" >>, Tb |-> << "ec2", "exa" >>,
                  Tc |-> << >>, Tbase |-> << "ec3", "eb2" >>],
     base_type |-> [Ta |-> NoType, Tb |-> "Tbase", Tc |-> NoType,
                    Tbase |-> NoType]]

\* content models that contain themselves and two types that derive from
\* each other
CyclicGraph ==
    [root_elements |-> << "ra" >>,
     name |-> [ra |-> Name("", "a"), eb |-> Name("", "b"), ec |-> Name("", "c")],
     type |-> [ra |-> "Ta", eb |-> "Tb", ec |-> "Tc"],
     content |-> [Ta |-> << "eb" >>, Tb |-> << "eb", "ec" >>,
                  Tc |-> << "eb" >>],
     base_type |-> [Ta |-> NoType, Tb |-> "Tc", Tc |-> "Tb"]]

\* two root elements, a and d
RootsGraph ==
    [root_elements |-> << "ra", "rd" >>,
     name |-> [ra |-> Name("", "a"), eb |-> Name("", "b"),
               rd |-> Name("", "d"), ee |-> Name("", "e")],
     type |-> [ra |-> "Ta", eb |-> "Tc", rd |-> "Td", ee |-> "Tc"],
     content |-> [Ta |-> << "eb" >>, Td |-> << "ee" >>, Tc |-> << >>],
     base_type |-> [Ta |-> NoType, Td |-> NoType, Tc |-> NoType]]

\* a schema of type definitions only: no global element
TypesGraph ==
    [root_elements |-> << >>, name |-> << >>, type |-> << >>,
     content |-> [Tc |-> << >>], base_type |-> [Tc |-> NoType]]

\* what xmlschema.XMLSchema compiles the schema file into
GraphOf(schema) ==
    IF schema.path = Xsd("c", "tree") THEN TreeGraph
    ELSE IF schema.path = Xsd("c", "cyclic") THEN CyclicGraph
    ELSE IF schema.path = Xsd("c", "roots") THEN RootsGraph
    ELSE IF schema.path = Xsd("c", "types") THEN TypesGraph
    ELSE IF schema.path = Xsd("s", "a")
    THEN [root_elements |-> << "ra" >>,
          name |-> [ra |-> Name("urn:a", "a"), eb |-> Name("urn:a", "b")],
          type |-> [ra |-> "Ta", eb |-> "Tc"],
          content |-> [Ta |-> << "eb" >>, Tc |-> << >>],
          base_type |-> [Ta |-> NoType, Tc |-> NoType]]
    ELSE [root_elements |-> << "ra" >>,
          name |-> [ra |-> Name(IF schema.path = Xsd("p", "x") THEN "urn:x"
                                ELSE "",
                                IF schema.path = Xsd("p", "x") THEN "a"
                                ELSE "h")],
          type |-> [ra |-> "Tc"],
          content |-> [Tc |-> << >>],
          base_type |-> [Tc |-> NoType]]

\* _local_name_for_element and _namespace_for_element of a schema node
_local_name_for_element(graph, elt) == graph.name[elt].local
_namespace_for_element(graph, elt) == graph.name[elt].ns

\* the name _get_elements_from_type appends for an element node (lines
\* 534-539): the local name when the element is in the default namespace,
\* else element_node.name; a name without namespace is its local name
LabelOf(graph, elt, default_xmlns) ==
    IF _namespace_for_element(graph, elt) = default_xmlns
    THEN Name("", _local_name_for_element(graph, elt))
    ELSE graph.name[elt]

RECURSIVE LabelsFrom(_, _, _, _)
LabelsFrom(graph, content, default_xmlns, i) ==
    IF i > Len(content) THEN << >>
    ELSE << LabelOf(graph, content[i], default_xmlns) >>
         \o LabelsFrom(graph, content, default_xmlns, i + 1)

\* the order of Python strings on names: a name in braces comes after every
\* plain name ("{" is above the letters)
Letters == << "a", "b", "c", "d", "e", "h", "y" >>
Rank(local) == CHOOSE k \in 1..Len(Letters) : Letters[k] = local
StrLeq(l1, l2) ==
    IF l1.ns = l2.ns THEN Rank(l1.local) <= Rank(l2.local)
    ELSE l1.ns = ""

\* sorted(list(set(valid_children)))
RECURSIVE SortedSet(_)
SortedSet(S) ==
    IF S = {} THEN << >>
    ELSE LET m == CHOOSE x \in S : \A y \in S : StrLeq(x, y)
         IN  << m >> \o SortedSet(S \ {m})
Range(seq) == {seq[k] : k \in 1..Len(seq)}

\* The document with the marker element put in at the offset: the parent of
\* the marker is the root element of the document, and there is none when
\* the marker comes before every element (it is the root itself).
\* xml_content[:position] with a position past the end is the whole content.
NoParent == NoTag
ParentAt(content, position) ==
    IF \E i \in 1..Min(position, Len(content)) : IsLetter(content[i])
    THEN ParseRoot(content) ELSE NoParent

\* One frame of _get_child_by_name_recurse: the element whose content model
\* the loop goes through, the index of the next node, and foundchild.
Frame(elt) == [elt |-> elt, i |-> 1, foundchild |-> NoElement]

\* the call at lines 628-630 on the first root element: the root itself when
\* its local name is the tag, else its frame.  expanded lists the nodes whose
\* content model a call started to go through, skipped counts the nodes the
\* loops passed over because they were in visited.
SearchStart(graph, tag) ==
    LET root == graph.root_elements[1] IN
    IF _local_name_for_element(graph, root) = tag
    THEN [frames |-> << >>, visited |-> {}, returned |-> root,
          expanded |-> << >>, skipped |-> 0]
    ELSE [frames |-> << Frame(root) >>, visited |-> {}, returned |-> NoElement,
          expanded |-> << root >>, skipped |-> 0]

\* a search that goes into every node it meets, visited or not
SearchStepUnguarded(graph, tag, st) ==
    LET n == Len(st.frames)
        top == st.frames[n]
        content == graph.content[graph.type[top.elt]]
    IN  IF top.i > Len(content)
        THEN IF n = 1
             THEN [st EXCEPT !.frames = << >>, !.returned = top.foundchild]
             ELSE [st EXCEPT !.frames =
                      [SubSeq(st.frames, 1, n - 1)
                         EXCEPT ![n - 1].foundchild = top.foundchild]]
        ELSE LET x == content[top.i]
                 next == [st EXCEPT !.frames[n].i = top.i + 1]
             IN  IF top.foundchild # NoElement THEN next
                 ELSE IF _local_name_for_element(graph, x) = tag
                 THEN [next EXCEPT !.frames[n].foundchild = x]
                 ELSE [next EXCEPT !.frames = Append(@, Frame(x)),
                                   !.visited = @ \cup {x},
                                   !.expanded = Append(@, x)]

\* one step of _get_child_by_name_recurse (lines 601-624): the end of a loop
\* returns foundchild to the caller, which stores it as its own foundchild;
\* an iteration passes over x when x is in visited or a child was found,
\* takes x when its local name is the tag, and otherwise adds x to visited
\* and calls itself on x
SearchStep(graph, tag, st) ==
    LET n == Len(st.frames)
        top == st.frames[n]
        content == graph.content[graph.type[top.elt]]
    IN  IF top.i > Len(content)
        THEN IF n = 1
             THEN [st EXCEPT !.frames = << >>, !.returned = top.foundchild]
             ELSE [st EXCEPT !.frames =
                      [SubSeq(st.frames, 1, n - 1)
                         EXCEPT ![n - 1].foundchild = top.foundchild]]
        ELSE LET x == content[top.i]
                 next == [st EXCEPT !.frames[n].i = top.i + 1]
             IN  IF x \in st.visited
                 THEN [next EXCEPT !.skipped = @ + 1]
                 ELSE IF top.foundchild # NoElement THEN next
                 ELSE IF _local_name_for_element(graph, x) = tag
                 THEN [next EXCEPT !.frames[n].foundchild = x]
                 ELSE [next EXCEPT !.frames = Append(@, Frame(x)),
                                   !.visited = @ \cup {x},
                                   !.expanded = Append(@, x)]

\* _get_elements_from_type (lines 521-546), one call: nothing for no type or
\* a visited type; else the type is visited, the names of its content model
\* are appended and the call goes on with the base type
CollectStart(xsd_type) ==
    [type |-> xsd_type, visited_types |-> {}, valid_children |-> << >>,
     expanded_types |-> << >>, stopped |-> FALSE, done |-> FALSE]
CollectStep(graph, default_xmlns, st) ==
    IF st.type = NoType THEN [st EXCEPT !.done = TRUE]
    ELSE IF st.type \in st.visited_types
    THEN [st EXCEPT !.done = TRUE, !.stopped = TRUE]
    ELSE [st EXCEPT
            !.visited_types = @ \cup {st.type},
            !.valid_children =
               @ \o LabelsFrom(graph, graph.content[st.type], default_xmlns, 1),
            !.expanded_types = Append(@, st.type),
            !.type = graph.base_type[st.type]]

\* the items completion builds (lines 693-711) from (parent, completions)
OpenItem(label) == [label |-> << label >>, insert_text |-> << "<", label, ">" >>]
CloseItem(local_name) ==
    [label |-> << "close ", local_name >>,
     insert_text |-> << "</", local_name, ">" >>]
ItemsOf(parent, completions) ==
    [k \in 1..Len(completions) |-> OpenItem(completions[k])]
    \o (IF parent # NoParent THEN << CloseItem(parent) >> ELSE << >>)

\* A completion request in progress: the request, the phase it is in, the
\* parent of the marker, the state of the search and of the collection, and,
\* when it is done, the items of the list it returns or the exception it
\* raised.
Request(has_session, has_workspace, schema, default_namespace, content, pos) ==
    [has_session |-> has_session, has_workspace |-> has_workspace,
     schema |-> schema, default_namespace |-> default_namespace,
     content |-> content, pos |-> pos]
NoSearch ==
    [frames |-> << >>, visited |-> {}, returned |-> NoElement,
     expanded |-> << >>, skipped |-> 0]
Completion(request, phase, parent, search, collect, items, raised) ==
    [op |-> "completion", request |-> request, phase |-> phase,
     parent |-> parent, search |-> search, collect |-> collect,
     items |-> items, raised |-> raised]
Returned(request, parent, completions) ==
    Completion(request, "done", parent, NoSearch, CollectStart(NoType),
               ItemsOf(parent, completions), "")
Raised(request, parent, exception) ==
    Completion(request, "done", parent, NoSearch, CollectStart(NoType),
               << >>, exception)

\* completion up to the call of _get_child_by_name_recurse: the empty list
\* without session, workspace or schema (lines 664-686); IndexError from
\* _pos_to_offset2 (566); (None, []) without a parent (596-598); IndexError
\* from schema.root_elements[0] (629), which except KeyError does not catch
CompletionStart(request) ==
    LET position == _pos_to_offset2(request.content, request.pos)
        parent == ParentAt(request.content, position)
        graph == GraphOf(request.schema)
    IN  IF ~request.has_session \/ ~request.has_workspace
           \/ request.schema = NoSchema
        THEN Completion(request, "done", NoParent, NoSearch,
                        CollectStart(NoType), << >>, "")
        ELSE IF position = IndexError
        THEN Raised(request, NoParent, "IndexError")
        ELSE IF parent = NoParent THEN Returned(request, NoParent, << >>)
        ELSE IF graph.root_elements = << >>
        THEN Raised(request, parent, "IndexError")
        ELSE Completion(request, "search", parent, SearchStart(graph, parent),
                        CollectStart(NoType), << >>, "")

\* the next step of a request in progress: the search goes on; when it has
\* returned, (parent, []) for None (631-633), else the collection starts at
\* the type of the element found (646-648) and goes on; when it is done the
\* sorted names without duplicates are returned (653).  The root of a
\* document of the model has no namespace, so default_xmlns (line 579) is
\* the default namespace of the request.
CompletionStep(c) ==
    LET graph == GraphOf(c.request.schema)
        default_xmlns == c.request.default_namespace
    IN  IF c.phase = "search"
        THEN IF c.search.frames # << >>
             THEN [c EXCEPT !.search = SearchStep(graph, c.parent, @)]
             ELSE IF c.search.returned = NoElement
             THEN [c EXCEPT !.phase = "done",
                            !.items = ItemsOf(c.parent, << >>)]
             ELSE [c EXCEPT !.phase = "collect",
                            !.collect =
                               CollectStart(graph.type[c.search.returned])]
        ELSE IF ~c.collect.done
        THEN [c EXCEPT !.collect = CollectStep(graph, default_xmlns, @)]
        ELSE [c EXCEPT !.phase = "done",
                       !.items =
                          ItemsOf(c.parent,
                                  SortedSet(Range(c.collect.valid_children)))]

\* ---------------------------------------------- completion on its own
\* One completion request on any text of up to MaxText characters at any
\* position, with any of the schemas, step by step.  A call never goes
\* deeper than the number of nodes of a schema, which is below MaxDepth.
MaxText == 2
MaxDepth == 5
CompletionAlphabet == {"a", "b", "c", "d", "y", NL}
CompletionTexts == UNION {[1..n -> CompletionAlphabet] : n \in 0..MaxText}
CompletionPositions == {Pos(0, 0), Pos(0, 1), Pos(1, 0), Pos(2, 0)}
\* the schemas, each with the default namespace of its workspace entry
CompletionSchemas ==
    {<< NoSchema, None >>, << [path |-> Xsd("c", "tree")], None >>,
     << [path |-> Xsd("c", "tree")], "urn:x" >>,
     << [path |-> Xsd("c", "cyclic")], None >>,
     << [path |-> Xsd("c", "roots")], None >>,
     << [path |-> Xsd("c", "types")], None >>}
Requests ==
    {Request(TRUE, TRUE, s[1], s[2], content, pos) :
        s \in CompletionSchemas, content \in CompletionTexts,
        pos \in CompletionPositions}
    \cup {Request(FALSE, TRUE, [path |-> Xsd("c", "tree")], None, << "a" >>,
                  Pos(0, 1)),
          Request(TRUE, FALSE, [path |-> Xsd("c", "tree")], None, << "a" >>,
                  Pos(0, 1))}

complete(request) ==
    /\ ev.op = "init"
    /\ ev' = CompletionStart(request)
    /\ UNCHANGED << initialized, workspaces, session_cache, orphans, opened,
                    ref, burst >>

completion_step ==
    /\ ev.op = "completion"
    /\ ev.phase # "done"
    /\ Len(ev.search.frames) <= MaxDepth
    /\ ev' = CompletionStep(ev)
    /\ UNCHANGED << initialized, workspaces, session_cache, orphans, opened,
                    ref, burst >>

NextCompletion ==
    \/ ev.op = "init" /\ \E request \in Requests : complete(request)
    \/ completion_step

SpecCompletion == Init /\ [][NextCompletion]_vars
SpecCompletionLive == SpecCompletion /\ WF_vars(completion_step)

\* ------------------------------------------- the handlers without timers
\* completion(ls, params), the whole request: the lookups of lines 664-686
\* and the steps of the request up to its end
RECURSIVE RunCompletion(_)
RunCompletion(c) ==
    IF c.phase = "done" THEN c ELSE RunCompletion(CompletionStep(c))

completion(uri, pos) ==
    /\ initialized
    /\ ev' = RunCompletion(CompletionStart(
               Request(uri \in DOMAIN session_cache,
                       root_uri(uri) \in DOMAIN workspaces,
                       Lookup(workspaces, uri).schema,
                       Lookup(workspaces, uri).default_namespace,
                       IF uri \in DOMAIN session_cache
                       THEN session_cache[uri].content ELSE << >>,
                       pos)))
    /\ UNCHANGED << initialized, workspaces, session_cache, orphans, opened,
                    ref, burst >>

\* The requests and notifications of two documents, in any order; the
\* timers the changes arm are left waiting.
HandlerBatches ==
    { << Full(<< "a" >>) >>,
      << Replace(Pos(0, 0), Pos(0, 0), << "b" >>) >> }
HandlerPositions == {Pos(0, 1), Pos(2, 0)}
NextHandlers ==
    \/ \E has_root \in BOOLEAN : initialize(has_root)
    \/ \E uri \in URIs, content \in Texts : did_open(uri, content)
    \/ \E uri \in URIs, changes \in HandlerBatches, file \in FileReads :
          did_change(uri, changes, file)
    \/ \E uri \in Edited, file \in FileReads : did_save(uri, file)
    \/ \E uri \in URIs : did_close(uri)
    \/ \E uri \in URIs, pos \in HandlerPositions : completion(uri, pos)

SpecHandlers == Init /\ [][NextHandlers]_vars

\* ------------------------------------------------------------------ claims
\* timers of uri that are armed: started, not cancelled, not yet woken
ArmedFor(uri) ==
    Cardinality({u \in DOMAIN session_cache :
                   u = uri /\ session_cache[u].timer.st = "armed"})
    + BagCardinality([t \in {x \in BagToSet(orphans) :
                               x.uri = uri /\ x.st = "armed"} |-> orphans[t]])

\* the document of the last step has a schema bound
Bound(uri) == Lookup(workspaces, uri).schema # NoSchema
\* the last step was a change that was applied to a session
Applied == ev.op = "did_change" /\ ~ev.raised /\ ~ev.dropped

\* C1: after open(uri, A) and any sequence of changes, with no save, close
\* or eviction in between, the session content of uri is the result of
\* applying every received batch, edit by edit and in order, to A.
C1_ContentIsFoldOfEdits ==
    \A u \in DOMAIN ref :
        u \in DOMAIN session_cache /\ session_cache[u].content = ref[u]

\* C2: in every reachable state every document has at most one armed timer.
C2_AtMostOneArmedTimer == \A u \in URIs : ArmedFor(u) <= 1

\* C3: when open(uri, text) returns, no timer of uri armed before the open
\* is still pending (open arms none itself) and the session content is text.
C3_OpenCancelsTimer ==
    ev.op = "did_open" =>
        /\ ArmedFor(ev.uri) = 0
        /\ session_cache[ev.uri].content = ev.text

\* C4: while a burst of changes of a document goes on (every change found
\* the timer of the previous one still waiting), exactly one timer of the
\* document is alive, so that the burst ends in exactly one firing.
C4_BurstHasOneTimer == \A u \in burst : LiveFor(u) = 1

\* C5: the content a firing timer takes for its validation is the content
\* the session of its document holds at that moment.
C5_FiresOnCurrentContent ==
    ev.op = "timer_read" /\ ~ev.dropped =>
        /\ ev.uri \in DOMAIN session_cache
        /\ ev.text = session_cache[ev.uri].content

\* C5 witness: a timer has read the content of a session that was replaced
\* after the timer was armed.
C5_Witness ==
    /\ ev.op = "timer_read" /\ ~ev.dropped
    /\ \E t \in AllTimers :
          t.st = "read" /\ t.stale /\ t.uri = ev.uri /\ t.content = ev.text

\* C6 as stated: every open, save and change publishes one diagnostic set
\* for its document before it returns, the empty set when no schema is bound.
C6_EveryNotificationPublishes ==
    ev.op \in {"did_open", "did_save", "did_change"} =>
        /\ Len(ev.pubs) = 1
        /\ ev.pubs[1].uri = ev.uri
        /\ ~Bound(ev.uri) => ev.pubs[1].diagnostics = << >>

\* C6 amended: every open publishes one diagnostic set for its document,
\* the empty set when no schema is bound; a change applied to a session
\* publishes one set when a schema is bound and nothing when none is; a save
\* publishes nothing.
C6_ImmediateValidation ==
    /\ ev.op = "did_open" =>
          /\ Len(ev.pubs) = 1
          /\ ev.pubs[1].uri = ev.uri
          /\ ev.pubs[1].content = session_cache[ev.uri].content
          /\ ~Bound(ev.uri) => ev.pubs[1].diagnostics = << >>
    /\ Applied /\ Bound(ev.uri) =>
          /\ Len(ev.pubs) = 1
          /\ ev.pubs[1].uri = ev.uri
          /\ ev.pubs[1].content = session_cache[ev.uri].content
    /\ Applied /\ ~Bound(ev.uri) => ev.pubs = << >>
    /\ ev.op = "did_save" => ev.pubs = << >>

\* C6 witness: a change with a bound schema has published errors.
C6_Witness ==
    /\ Applied /\ Bound(ev.uri)
    /\ Len(ev.pubs) = 1 /\ ev.pubs[1].diagnostics # << >>

\* C7 as stated: every change applied to a session leaves one newly armed
\* timer of the document, whether or not a schema is bound.
C7_EveryChangeArms ==
    Applied =>
        /\ ev.armed
        /\ session_cache[ev.uri].timer.st = "armed"
        /\ session_cache[ev.uri].timer.remaining = Delay

\* C7 amended: a change applied to a session leaves exactly one newly armed
\* timer of the document, held by its session, when a schema is bound to the
\* document, and arms no timer when none is bound.
C7_ChangeArmsWhenBound ==
    /\ Applied /\ Bound(ev.uri) =>
          /\ ev.armed
          /\ session_cache[ev.uri].timer.st = "armed"
          /\ session_cache[ev.uri].timer.remaining = Delay
          /\ session_cache[ev.uri].timer.uri = ev.uri
    /\ Applied /\ ~Bound(ev.uri) =>
          /\ ~ev.armed
          /\ session_cache[ev.uri].timer = NoTimer

\* C7 witness: a change has cancelled the waiting timer and armed a new one.
C7_Witness == Applied /\ Bound(ev.uri) /\ ev.armed /\ ev.cancelled

\* C8: when close(uri) returns there is no session of uri and no workspace
\* binds uri to a schema path.
C8_CloseRemovesSession ==
    ev.op = "did_close" =>
        /\ ev.uri \notin DOMAIN session_cache
        /\ \A w \in DOMAIN workspaces :
              ev.uri \notin DOMAIN workspaces[w].schemapaths_for_uri

\* C9: a deferred validation that fires after the close of its document has
\* completed publishes no diagnostics for it.
C9_NoPublishAfterClose ==
    ev.op = "timer_publish" /\ ev.late /\ ev.uri \notin opened =>
        ev.pubs = << >>

\* C10: a deferred validation that finds the session of its document missing
\* validates nothing, publishes nothing and raises no error: the timer is
\* finished.
C10_MissingSessionNoOp ==
    ev.op = "timer_read" /\ ev.dropped =>
        /\ ev.pubs = << >>
        /\ ~ev.raised
        /\ ~ev.live

\* C10 witness: a timer has fired while its document had no session.
C10_Witness ==
    /\ ev.op = "timer_read" /\ ev.dropped
    /\ ev.uri \notin DOMAIN session_cache

\* C11: after a save that read the document's file, the session content of
\* the document is what the file holds, whatever the session held before.
C11_SaveReloads ==
    ev.op = "did_save" /\ ~ev.raised =>
        /\ ev.uri \in DOMAIN session_cache
        /\ session_cache[ev.uri].content = ev.text

\* C11 witness: a save has replaced a content that differed from the file.
C11_Witness == ev.op = "did_save" /\ ~ev.raised /\ ev.before # ev.text

\* the last step was a change that found no session of its document
Recovering == ev.op = "did_change" /\ ev.batch # << >>

\* C12: a change for a document without a session leaves the session the
\* edits make of the file's content; when the file cannot be read the change
\* is dropped: no session, no diagnostics, no timer, no error.
C12_SessionMissRecovery ==
    /\ Recovering /\ ~ev.raised =>
          /\ ev.uri \in DOMAIN session_cache
          /\ session_cache[ev.uri].content =
                _apply_incremental_changes(ev.text, ev.batch).content
    /\ ev.op = "did_change" /\ ev.dropped =>
          /\ ev.uri \notin DOMAIN session_cache
          /\ ev.pubs = << >>
          /\ ~ev.armed /\ ~ev.raised

\* C12 witness: a recovery has applied edits that changed the file's content.
C12_Witness ==
    /\ Recovering /\ ~ev.raised
    /\ session_cache[ev.uri].content # ev.text

\* C13: a change refreshes the TTL of its session, so that the period of
\* TickLen seconds that follows an applied change (less than the TTL) does
\* not evict the session.
C13_ChangeRefreshesTTL ==
    [][ev.op = "did_change" /\ ~ev.dropped /\ ~ev.raised /\ ev'.op = "tick"
         => ev.uri \in DOMAIN session_cache']_vars

\* C14: the result of applying a batch is the left fold of its edits over the
\* initial content, each edit on the content the previous one left, also when
\* a full replacement is followed by further edits (batches whose positions
\* lie inside the content they apply to).
C14_ApplyIsLeftFold ==
    ev.op = "apply_edits" /\ RefInside(ev.content, ev.changes, 1) =>
        /\ ~ev.result.raised
        /\ ev.result.content = RefApply(ev.content, ev.changes)

\* line and column (both from 0) of the place right before index i
LineOfIndex(content, i) == Cardinality({j \in 1..(i - 1) : content[j] = NL})
ColOfIndex(content, i) ==
    Cardinality({j \in 1..(i - 1) :
                   \A k \in j..(i - 1) : content[k] # NL})
\* the position an offset stands for, read off the text
PosAt(content, offset) ==
    Pos(LineOfIndex(content, offset + 1), ColOfIndex(content, offset + 1))
\* characters of the text that lie before a position
CharsBefore(content, pos) ==
    Cardinality({i \in 1..Len(content) :
                   \/ LineOfIndex(content, i) < pos.line
                   \/ /\ LineOfIndex(content, i) = pos.line
                      /\ ColOfIndex(content, i) < pos.character})
\* length of line l (from 0) without its terminator
VisibleLen(content, l) ==
    Cardinality({i \in 1..Len(content) :
                   LineOfIndex(content, i) = l /\ content[i] # NL})
\* a position on a line of the content, not past the end of that line
ValidPos(content, pos) ==
    /\ pos.line < Len(LinesOf(content))
    /\ pos.character <= VisibleLen(content, pos.line)

\* C15: for a position on a line of the content and within that line, the
\* offset is the number of characters before the position (the lengths of
\* the preceding lines, terminators included, plus character) and the
\* position read back from the offset is the original one.
C15_OffsetRoundTrip ==
    ev.op = "offset" /\ ValidPos(ev.content, ev.pos) =>
        /\ ev.result = CharsBefore(ev.content, ev.pos)
        /\ PosAt(ev.content, ev.result) = ev.pos

\* C15 witness: an offset was taken on a second line, past its first column.
C15_Witness ==
    /\ ev.op = "offset" /\ ValidPos(ev.content, ev.pos)
    /\ ev.pos.line > 0 /\ ev.pos.character > 0

\* a position at or past the end of the content
AtOrPastEnd(content, pos) ==
    \/ pos.line >= Len(LinesOf(content))
    \/ /\ pos.line = Len(LinesOf(content)) - 1
       /\ pos.character >= Len(LinesOf(content)[pos.line + 1])

\* C16: for a position at or past the end of the content the offset is the
\* length of the content, and no exception is raised.
C16_OffsetPastEnd ==
    ev.op = "offset" /\ AtOrPastEnd(ev.content, ev.pos) =>
        /\ ev.result # IndexError
        /\ ev.result = Len(ev.content)

\* the last step was a resolution of a parseable content that found the uri
\* bound to a cached schema (a hit) or not (a miss)
Hit == ev.op = "resolve" /\ ev.bound # << >> /\ ~XMLSyntaxError(ev.content)
Miss == ev.op = "resolve" /\ ev.bound = << >> /\ ~XMLSyntaxError(ev.content)

\* the candidate of locator i before the last resolution, and the locators
\* that produce one
CandidateOf(i) ==
    IF ev.old.impl = "xmllsp"
    THEN Candidate(ev.old.options[i], ev.uri, ev.content).path
    ELSE WorkspaceCandidate(ev.old.options[i], ev.uri, ev.content).path
Producing == {i \in 1..Len(ev.old.options) : CandidateOf(i) # << >>}
First == CHOOSE i \in Producing : \A j \in Producing : i <= j

\* C17: a resolution for a uri that an earlier resolution has bound returns
\* the bound schema path and the cached schema object, whatever the content,
\* goes through no locator and loads nothing.
C17_ResolveIdempotent ==
    Hit =>
        /\ ev.schema_path = ev.bound
        /\ ev.schema = ev.old.schemas_for_xsdpath[ev.bound]
        /\ ev.tried = 0
        /\ ~ev.loaded

\* C17 witness: a document bound to the schema of root element a was
\* resolved again with a content whose locators lead to another schema.
C17_Witness ==
    Hit /\ ev.bound = Xsd("s", "a") /\ ev.content = << "h" >>

\* C18: on a miss the loop stops at the first locator, in declared order,
\* that produces a candidate; a returned path is that candidate; with no
\* candidate at all every locator is gone through and nothing is returned.
C18_FirstCandidateWins ==
    Miss =>
        IF Producing = {}
        THEN ev.tried = Len(ev.old.options) /\ ev.schema_path = << >>
        ELSE /\ ev.tried = First
             /\ ev.schema_path \in {<< >>, CandidateOf(First)}
             /\ ~LoadFails(CandidateOf(First)) =>
                   ev.schema_path = CandidateOf(First)

\* C18 witness: two locators had a candidate and a schema was returned.
C18_Witness ==
    Miss /\ Cardinality(Producing) >= 2 /\ ev.schema_path # << >>

\* C19: when the first candidate fails to load, the resolution returns no
\* schema and no path and goes through no later locator.
C19_BrokenSchemaStops ==
    Miss /\ Producing # {} /\ LoadFails(CandidateOf(First)) =>
        /\ ev.schema = NoSchema
        /\ ev.schema_path = << >>
        /\ ev.tried = First

\* C19 witness: the first candidate failed to load while a later locator
\* had a candidate that loads.
C19_Witness ==
    /\ Miss /\ Producing # {} /\ LoadFails(CandidateOf(First))
    /\ \E i \in Producing : i > First /\ ~LoadFails(CandidateOf(i))

\* C20: a resolution that returns a schema path the workspace already has a
\* schema object for does not load the file again: it returns the cached
\* object.
C20_LoadOnce ==
    /\ ev.op = "resolve" /\ ev.schema_path # << >>
    /\ ev.schema_path \in DOMAIN ev.old.schemas_for_xsdpath
    => /\ ~ev.loaded
       /\ ev.schema = ev.old.schemas_for_xsdpath[ev.schema_path]

\* the workspace of the resolver specification, and the paths its open
\* documents are bound to
TheWorkspace == workspaces[RootUri]
Referenced(workspace) ==
    {workspace.schemapaths_for_uri[u] :
       u \in DOMAIN workspace.schemapaths_for_uri \cap opened}

\* C21: between handlers, the schema paths in the schema cache of a workspace
\* are the schema paths bound to its open documents: a path is cached exactly
\* when an open document references it (and only open documents are bound).
C21_CachedIffReferenced ==
    \A r \in DOMAIN workspaces :
        /\ DOMAIN workspaces[r].schemas_for_xsdpath = Referenced(workspaces[r])
        /\ DOMAIN workspaces[r].schemapaths_for_uri \subseteq opened

\* C21 witness: a document was closed and the schema path it was bound to is
\* still cached for the other open document.
C21_Witness ==
    /\ ev.op = "release"
    /\ ev.uri \in DOMAIN ev.old.schemapaths_for_uri
    /\ ev.old.schemapaths_for_uri[ev.uri]
          \in DOMAIN TheWorkspace.schemas_for_xsdpath
    /\ opened # {}

\* the path the released document was bound to, and whether another document
\* was bound to it too
ReleasedPath == ev.old.schemapaths_for_uri[ev.uri]
Shared ==
    \E u \in DOMAIN ev.old.schemapaths_for_uri :
        u # ev.uri /\ ev.old.schemapaths_for_uri[u] = ReleasedPath
\* dictionary new is dictionary old without key k
Without(new, old, k) ==
    /\ DOMAIN new = DOMAIN old \ {k}
    /\ \A x \in DOMAIN new : new[x] = old[x]

\* C22: a release removes the binding of its uri and no other binding; the
\* schema object and the default-namespace entry of the path stay as they
\* were while another document is bound to the path and are removed when
\* none is; the entries of every other path are unchanged.
C22_ReleaseFrame ==
    ev.op = "release" =>
        IF ev.uri \notin DOMAIN ev.old.schemapaths_for_uri
        THEN TheWorkspace = ev.old
        ELSE /\ Without(TheWorkspace.schemapaths_for_uri,
                        ev.old.schemapaths_for_uri, ev.uri)
             /\ IF Shared
                THEN /\ TheWorkspace.schemas_for_xsdpath
                          = ev.old.schemas_for_xsdpath
                     /\ TheWorkspace.default_xmlns_for_schemapath
                          = ev.old.default_xmlns_for_schemapath
                ELSE /\ Without(TheWorkspace.schemas_for_xsdpath,
                                ev.old.schemas_for_xsdpath, ReleasedPath)
                     /\ Without(TheWorkspace.default_xmlns_for_schemapath,
                                ev.old.default_xmlns_for_schemapath,
                                ReleasedPath)

\* C22 witness: one of two documents bound to a schema with a
\* default-namespace entry was released.
C22_Witness ==
    /\ ev.op = "release"
    /\ ev.uri \in DOMAIN ev.old.schemapaths_for_uri
    /\ Shared
    /\ ReleasedPath \in DOMAIN ev.old.default_xmlns_for_schemapath

\* the locator whose candidate the last resolution loaded
Winner == ev.old.options[ev.tried]

\* C23: a default-namespace entry appears only in a resolution that loaded
\* its path through a filename-pattern entry whose useDefaultNamespace flag
\* is set, so every entry belongs to a path such an entry names; a
\* resolution through the root-element or location-hint locator creates none.
C23_DefaultNamespaceOnRequest ==
    /\ initialized =>
          \A q \in DOMAIN TheWorkspace.default_xmlns_for_schemapath :
              \E i \in 1..Len(TheWorkspace.options) :
                 \E k \in 1..Len(TheWorkspace.options[i].patterns) :
                    /\ TheWorkspace.options[i].kind = "patterns"
                    /\ TheWorkspace.options[i].patterns[k].path = q
                    /\ TheWorkspace.options[i].patterns[k].useDefaultNamespace
    /\ ev.op \in {"resolve", "release"} =>
          \A q \in DOMAIN TheWorkspace.default_xmlns_for_schemapath :
              q \notin DOMAIN ev.old.default_xmlns_for_schemapath =>
                 /\ ev.op = "resolve" /\ ev.loaded /\ ev.schema_path = q
                 /\ Winner.kind = "patterns"
                 /\ \E k \in 1..Len(Winner.patterns) :
                       /\ fnmatch(basename(ev.uri), Winner.patterns[k].pattern)
                       /\ Winner.patterns[k].path = q
                       /\ Winner.patterns[k].useDefaultNamespace

\* C23 witness: the root-element locator loaded a schema that declares a
\* target namespace, and the path has no default-namespace entry.
C23_Witness ==
    /\ ev.op = "resolve" /\ ev.loaded
    /\ Winner.kind = "rootElement"
    /\ targetNamespace(ev.schema_path) # None
    /\ ev.schema_path \notin DOMAIN TheWorkspace.default_xmlns_for_schemapath

\* the root-element and location-hint locators the last resolution went
\* through, and the files each asked the file system about
TriedOf(kind) ==
    {i \in 1..ev.tried : ev.old.options[i].kind = kind}
ProbesOf(i) ==
    LET l == ev.old.options[i] IN
    IF l.kind = "rootElement"
    THEN IF ev.old.impl = "xmllsp"
         THEN RootElementProbes(ev.content, l.searchPaths)
         ELSE SafeRootElementProbes(ev.content, l.searchPaths)
    ELSE IF ev.old.impl = "xmllsp"
         THEN HintProbes(ev.content, l.locationHint)
         ELSE SafeHintProbes(ev.content, l.locationHint)
InDirs(path, dirs) == \E k \in 1..Len(dirs) : path[1] = dirs[k]

\* C24: for a root element name with "..", "/", "\" or a character other
\* than letters, digits, '.', '_' and '-', the root-element locator yields
\* no candidate and asks about no file outside its search directories.
C24_RootNameTraversal ==
    Miss /\ (HasTraversal(ParseRoot(ev.content))
             \/ ~AllowedChars(ParseRoot(ev.content))) =>
        \A i \in TriedOf("rootElement") :
            /\ CandidateOf(i) = << >>
            /\ \A f \in ProbesOf(i) : InDirs(f, ev.old.options[i].searchPaths)

\* the map entries a content's hint tokens select that name a file with a
\* traversal sequence or outside the directory of the map
BadEntries(map_path) ==
    LET m == schema_map(map_path)
        dir == dirname(map_path)[1]
        selected == {m[HintsOf(ev.content)[k]] :
                       k \in {j \in 1..Len(HintsOf(ev.content)) :
                                HintsOf(ev.content)[j] \in DOMAIN m}}
    IN  {v \in selected :
           HasTraversal(v) \/ realpath(Xsd(dir, v))[1] # dir}

\* C25: the location-hint locator yields no candidate from a map entry whose
\* value has a traversal sequence or resolves outside the directory of the
\* map, and asks about no file outside that directory.
C25_MapValueTraversal ==
    Miss =>
        \A i \in TriedOf("locationHint") :
            LET map_path == ev.old.options[i].locationHint
                dir == dirname(map_path)[1]
            IN  /\ \A v \in BadEntries(map_path) :
                      CandidateOf(i) # << >> =>
                         realpath(CandidateOf(i)) # realpath(Xsd(dir, v))
                /\ \A f \in ProbesOf(i) : f[1] = dir

\* C26: a direct file reference among the hint tokens that leads outside the
\* directory of the document yields no candidate.
C26_FileHintContained ==
    Miss =>
        \A i \in TriedOf("locationHint") :
            \A k \in 1..Len(HintsOf(ev.content)) :
                LET hint == HintsOf(ev.content)[k] IN
                IsFileHint(hint)
                /\ FileOfHint(ev.uri, hint)[1] # doc_dir(ev.uri) =>
                    CandidateOf(i) # FileOfHint(ev.uri, hint)

\* the locators of unrecognized shape the last resolution came to
Unknown == {i \in 1..Len(ev.old.options) : ev.old.options[i].kind = "other"}

\* C27: a locator of unrecognized shape is skipped: the resolution goes on
\* to the locators after it and returns the candidate of the first
\* recognized locator that produces one.
C27_UnknownLocatorSkipped ==
    Miss =>
        \A i \in Unknown :
            (Producing = {} \/ i < First) =>
                /\ ev.tried > i
                /\ Producing # {} =>
                      /\ ev.tried = First
                      /\ ~LoadFails(CandidateOf(First)) =>
                            ev.schema_path = CandidateOf(First)

\* C27 witness: the first locator has an unrecognized shape and a later one
\* gave the schema that was returned.
C27_Witness ==
    /\ Miss /\ 1 \in Unknown
    /\ ev.schema_path # << >> /\ ev.tried > 1

\* the exception the last validation pass caught, and its diagnostics
Caught == ResourceError(ev.content)
Passed == ev.op = "validate" /\ ev.schema # NoSchema
Published == ev.pubs[1].diagnostics

\* C28: a validation pass publishes exactly one diagnostic set, for its
\* document, and the empty set when it finds no error.
C28_OnePublishPerPass ==
    ev.op = "validate" =>
        /\ Len(ev.pubs) = 1
        /\ ev.pubs[1].uri = ev.uri
        /\ Passed /\ ~Caught.raised
           /\ iter_errors(ev.schema, ev.default_xmlns, ev.content) = << >> =>
              Published = << >>

\* C28 witness: a pass with a schema found no error in a document and
\* published the empty set.
C28_Witness ==
    /\ Passed /\ ~Caught.raised /\ ev.content # << >>
    /\ iter_errors(ev.schema, ev.default_xmlns, ev.content) = << >>
    /\ Len(ev.pubs) = 1 /\ Published = << >>

\* C29: a parser exception whose text holds "line L, column C" gives one
\* published diagnostic, at the zero-based position (L-1, C-1), with the
\* text before the position as message.
C29_ParserErrorPosition ==
    Passed /\ Caught.raised /\ Caught.hasPosition =>
        /\ Len(ev.pubs) = 1
        /\ Len(Published) = 1
        /\ Published[1].line = Caught.line - 1
        /\ Published[1].character = Caught.column - 1
        /\ Published[1].message = "syntax"

\* C30 as stated: a parser exception without a line and column publishes
\* nothing, so the diagnostics published before stay.
C30_NothingPublished ==
    Passed /\ Caught.raised /\ ~Caught.hasPosition => ev.pubs = << >>

\* C30 amended: a parser exception without a line and column publishes one
\* diagnostic set for the document, the empty one.
C30_EmptySetPublished ==
    Passed /\ Caught.raised /\ ~Caught.hasPosition =>
        /\ Len(ev.pubs) = 1
        /\ ev.pubs[1].uri = ev.uri
        /\ Published = << >>

\* C30 witness: a pass caught an exception without a position and published
\* the empty set.
C30_Witness ==
    /\ Passed /\ Caught.raised /\ ~Caught.hasPosition
    /\ Len(ev.pubs) = 1 /\ Published = << >>

\* C40: a resolution that returns no schema and no path, for an unparseable
\* content, for want of a candidate or for a candidate that does not load,
\* leaves the bindings, the schema cache and the default-namespace entries
\* of the workspace as they were.
C40_FailedResolveNoEffect ==
    ev.op = "resolve" /\ ev.schema_path = << >> =>
        /\ ev.schema = NoSchema
        /\ TheWorkspace = ev.old

\* C40 witness: the candidate of a resolution failed to load in a workspace
\* that holds a schema for another document.
C40_Witness ==
    /\ Miss /\ Producing # {} /\ LoadFails(CandidateOf(First))
    /\ ev.schema_path = << >>
    /\ ev.old.schemas_for_xsdpath # EmptyDict

\* the candidate, with its default-namespace flag, of locator i before the
\* last resolution
CandidateRecord(i) ==
    IF ev.old.impl = "xmllsp"
    THEN Candidate(ev.old.options[i], ev.uri, ev.content)
    ELSE WorkspaceCandidate(ev.old.options[i], ev.uri, ev.content)
\* the patterns of locator i that match the file name of the document, and
\* those of them whose path the resolver can use: xmllsp.py wants a path,
\* workspace.py the path of an existing .xsd or .xml file
Matching(i) ==
    {k \in 1..Len(ev.old.options[i].patterns) :
       fnmatch(basename(ev.uri), ev.old.options[i].patterns[k].pattern)}
Usable(i) ==
    {k \in Matching(i) :
       LET path == ev.old.options[i].patterns[k].path IN
       /\ path # << >>
       /\ ev.old.impl = "workspace" =>
             exists(path) /\ path[Len(path)] \in {".xsd", ".xml"}}
Lowest(S) == CHOOSE k \in S : \A j \in S : k <= j
Supplied(i, k) ==
    [path |-> ev.old.options[i].patterns[k].path,
     use_default_namespace |-> ev.old.options[i].patterns[k].useDefaultNamespace]

\* C36 as stated: the first pattern that matches the file name supplies the
\* schema path and the default-namespace flag, and no pattern after it is
\* consulted.
C36_FirstMatchSupplies ==
    Miss =>
        \A i \in TriedOf("patterns") :
            Matching(i) # {} =>
                CandidateRecord(i) = Supplied(i, Lowest(Matching(i)))

\* C36 amended: the first pattern that matches the file name and has a
\* usable path supplies the schema path and the flag; matching patterns
\* without one are passed over, and with none usable there is no candidate.
C36_FirstUsableMatchSupplies ==
    Miss =>
        \A i \in TriedOf("patterns") :
            IF Usable(i) = {}
            THEN CandidateRecord(i).path = << >>
            ELSE CandidateRecord(i) = Supplied(i, Lowest(Usable(i)))

\* C36 witness: the first matching pattern had no usable path, a later one
\* supplied the schema, and a further matching pattern was left aside.
C36_Witness ==
    /\ Miss
    /\ \E i \in TriedOf("patterns") :
          /\ Usable(i) # {}
          /\ Lowest(Matching(i)) < Lowest(Usable(i))
          /\ \E k \in Usable(i) : k > Lowest(Usable(i))
          /\ ev.schema_path = Supplied(i, Lowest(Usable(i))).path

\* what hint token k of the document yields to location-hint locator i of
\* workspace.py: the file a file: token names when it is an existing .xsd
\* or .xml file, else the file the map names for the token when the name is
\* plain and the file exists in the directory of the map
Yield(i, k) ==
    LET hint == HintsOf(ev.content)[k]
        map_path == ev.old.options[i].locationHint
        m == schema_map(map_path)
        dir == dirname(map_path)[1]
    IN  IF IsFileHint(hint)
        THEN IF /\ exists(FileOfHint(ev.uri, hint))
                /\ FileOfHint(ev.uri, hint)[3] \in {".xsd", ".xml"}
             THEN FileOfHint(ev.uri, hint) ELSE << >>
        ELSE IF /\ hint \in DOMAIN m
                /\ ~HasTraversal(m[hint])
                /\ realpath(Xsd(dir, m[hint]))[1] = dir
                /\ exists(Xsd(dir, m[hint]))
             THEN realpath(Xsd(dir, m[hint])) ELSE << >>
Yielding(i) == {k \in 1..Len(HintsOf(ev.content)) : Yield(i, k) # << >>}
FileYielding(i) ==
    {k \in Yielding(i) : IsFileHint(HintsOf(ev.content)[k])}
HintLocators ==
    {i \in TriedOf("locationHint") : ev.old.options[i].locationHint # << >>}

\* C35 as stated: the location-hint locator returns the candidate of the
\* first token in document order that yields one, so a mapped token before
\* a direct file reference wins over it.
C35_FirstTokenWins ==
    Miss /\ ev.old.impl = "workspace" =>
        \A i \in HintLocators :
            CandidateOf(i) = IF Yielding(i) = {} THEN << >>
                             ELSE Yield(i, Lowest(Yielding(i)))

\* C35 amended: the direct file references are tried first, in document
\* order, and the map is consulted, again in document order, only when none
\* of them yields a candidate: a direct file reference wins over a mapped
\* token that precedes it.
C35_FileTokensFirst ==
    Miss /\ ev.old.impl = "workspace" =>
        \A i \in HintLocators :
            CandidateOf(i) = IF FileYielding(i) # {}
                             THEN Yield(i, Lowest(FileYielding(i)))
                             ELSE IF Yielding(i) = {} THEN << >>
                             ELSE Yield(i, Lowest(Yielding(i)))

\* C35 witness: a mapped token that yields a schema stood before a direct
\* file reference, and the file reference supplied the schema path.
C35_Witness ==
    /\ Miss /\ ev.old.impl = "workspace"
    /\ \E i \in HintLocators :
          /\ FileYielding(i) # {}
          /\ Lowest(Yielding(i)) < Lowest(FileYielding(i))
          /\ ev.schema_path = Yield(i, Lowest(FileYielding(i)))

\* the child of the element of the last error that its reason points at has
\* a source line
ChildHasLine ==
    /\ ev.error.position \in 1..Len(ev.error.children)
    /\ ev.error.children[ev.error.position] # 0

Carried(t) == << t.uri, t.schema, t.default_xmlns >>

\* C39: a deferred validation validates against the schema and the default
\* namespace bound to its document when its timer was armed: the timer takes
\* them when it is armed, keeps them while it lives, and the pass it runs
\* publishes for them, whatever is bound when it fires.
C39_SchemaOfArming ==
    [][/\ ev'.op = "did_change" /\ ev'.armed =>
             Carried(session_cache'[ev'.uri].timer) =
                << ev'.uri, Lookup(workspaces, ev'.uri).schema,
                   Lookup(workspaces, ev'.uri).default_namespace >>
       /\ \A t2 \in AllTimers' :
             \/ ev'.op = "did_change" /\ ev'.armed
                  /\ t2 = session_cache'[ev'.uri].timer
             \/ \E t \in AllTimers : Carried(t) = Carried(t2)
       /\ ev'.op = "timer_publish" =>
             \E t \in AllTimers :
                /\ t.st = "read"
                /\ Len(ev'.pubs) = 1
                /\ << ev'.pubs[1].uri, ev'.pubs[1].schema,
                      ev'.pubs[1].default_xmlns >> = Carried(t)
      ]_vars

\* C39 witness: a timer published for a schema after the close of its
\* document had released that schema.
C39_Witness ==
    /\ ev.op = "timer_publish"
    /\ ev.uri \notin opened
    /\ Len(ev.pubs) = 1
    /\ ev.pubs[1].schema # NoSchema
    /\ Lookup(workspaces, ev.uri).schema = NoSchema
    /\ ev.pubs[1].schema.path \notin DOMAIN TheWorkspace.schemas_for_xsdpath

\* C37: eventual re-validation. When a deferred validation has published
\* for an open document with a bound schema and no timer of the document is
\* left, so that nothing more is published unless a new notification comes,
\* the set it published is the validation result of the content of the
\* session.
C37_LastPublishedIsFinal ==
    /\ ev.op = "timer_publish"
    /\ ev.pubs # << >>
    /\ ev.uri \in opened
    /\ ev.uri \in DOMAIN session_cache
    /\ Lookup(workspaces, ev.uri).schema # NoSchema
    /\ LiveFor(ev.uri) = 0
    => ev.pubs[Len(ev.pubs)].content = session_cache[ev.uri].content

\* the last step ended a completion request; the request had a session, a
\* workspace and a schema
Completed == ev.op = "completion" /\ ev.phase = "done"
Served ==
    /\ ev.request.has_session /\ ev.request.has_workspace
    /\ ev.request.schema # NoSchema
NoDuplicates(seq) ==
    \A j, k \in 1..Len(seq) : j # k => seq[j] # seq[k]

\* C31: a completion request on a document with a session and a bound
\* schema returns one open-tag item per candidate name, sorted and without
\* duplicates, followed by one close-tag item for the parent if and only if
\* a parent was found; without session or schema it returns the empty list.
C31_CompletionList ==
    Completed =>
        /\ ev.raised = ""
        /\ IF ~Served THEN ev.items = << >>
           ELSE LET names == Range(ev.collect.valid_children)
                    n == Cardinality(names)
                IN  /\ Len(ev.items) = n + (IF ev.parent # NoParent THEN 1 ELSE 0)
                    /\ {ev.items[k] : k \in 1..n} = {OpenItem(l) : l \in names}
                    /\ \A j, k \in 1..n :
                          j < k => /\ ev.items[j] # ev.items[k]
                                   /\ StrLeq(ev.items[j].label[1],
                                             ev.items[k].label[1])
                    /\ ev.parent # NoParent =>
                          ev.items[n + 1] = CloseItem(ev.parent)

\* C32: the search for the definition of the parent and the collection of
\* the candidates through the base types end for every schema, cyclic ones
\* included, and neither goes through the content of a node twice.
C32_SearchTerminates ==
    /\ [](ev.op = "completion" =>
            /\ NoDuplicates(ev.search.expanded)
            /\ NoDuplicates(ev.collect.expanded_types))
    /\ (ev.op = "completion") ~> Completed

\* C32 witness: a request ended after its search passed over a node it had
\* visited and its collection came back to a type it had visited.
C32_Witness ==
    /\ Completed
    /\ ev.search.skipped > 0
    /\ ev.collect.stopped
    /\ ev.items # << >>

\* the element nodes of a schema that a descent from its root elements
\* reaches
RECURSIVE ReachFrom(_, _)
ReachFrom(graph, S) ==
    LET more == S \cup UNION {Range(graph.content[graph.type[n]]) : n \in S}
    IN  IF more = S THEN S ELSE ReachFrom(graph, more)
Reachable(graph) == ReachFrom(graph, Range(graph.root_elements))

\* C33: when the parent of the cursor has the local name of a definition
\* that a depth-first search from any root element of the schema reaches,
\* it is matched to such a definition; and a schema without root elements
\* yields (parent, []) and no error.
C33_AnyRootElement ==
    Completed /\ Served
    /\ _pos_to_offset2(ev.request.content, ev.request.pos) # IndexError
    /\ ev.parent # NoParent
    => LET graph == GraphOf(ev.request.schema) IN
       /\ ev.raised = ""
       /\ graph.root_elements = << >> => ev.items = << CloseItem(ev.parent) >>
       /\ (\E n \in Reachable(graph) :
              _local_name_for_element(graph, n) = ev.parent)
          => /\ ev.search.returned # NoElement
             /\ _local_name_for_element(graph, ev.search.returned) = ev.parent

\* C38: the change, save and completion handlers run no schema resolution
\* and leave the workspaces, with their bindings, schema caches and default
\* namespaces, as they were: a document without a schema has none after a
\* change, whatever its content has become.
C38_HandlersKeepWorkspace ==
    [][ev'.op \in {"did_change", "did_save", "completion"} =>
          workspaces' = workspaces]_vars

\* C38 witness: a change gave a document that was opened without a schema a
\* content that a resolution would find a schema for, and the document is
\* still without a schema.
C38_Witness ==
    /\ ev.op = "did_change"
    /\ ev.uri \in opened
    /\ RootUri \in DOMAIN workspaces
    /\ ev.uri \in DOMAIN session_cache
    /\ Lookup(workspaces, ev.uri).schema = NoSchema
    /\ _get_schema_for_doc(workspaces, RootUri, ev.uri,
                           session_cache[ev.uri].content).schema_path # << >>

====
